---- MODULE Spec2Model ----
(***************************************************************************)
(* A model of the session and streaming-protocol layer of                  *)
(* src/src/samplerate_nb.cpp: resample (bulk), Resampler (incremental      *)
(* session), CallbackResampler (callback-driven session), the bridge       *)
(* the_callback_func and the interpreter lock (GIL) discipline around the  *)
(* calls into libsamplerate (the conversion engine).                       *)
(*                                                                         *)
(* The engine is an external collaborator.  Its handles are modelled as    *)
(* records; its numerical work is abstracted to a delay line: a handle     *)
(* buffers up to EngineLatency input frames and emits the rest, so that    *)
(* the output of a call depends on the handle's history.  A thread switch  *)
(* by the interpreter inside the producer's own code is not modelled, and  *)
(* calls on one session are made one at a time.                            *)
(***************************************************************************)
EXTENDS Integers, Sequences, FiniteSets, TLC

\* ------------------------------------------------------------------ bounds
NSessions == 2
MaxHandles == 2
MaxProducerCalls == 2
MaxFrames == 2
EngineLatency == 1
MaxLog == 2

\* ------------------------------------------------------- program constants
END_OF_INPUT_EXTRA_OUTPUT_FRAMES == 10000

\* libsamplerate status codes the wrapper's call sites can see.
SRC_ERR_NO_ERROR == 0
SRC_ERR_MALLOC_FAILED == 1
SRC_ERR_BAD_STATE == 2
SRC_ERR_BAD_SRC_RATIO == 6
SRC_ERR_BAD_CONVERTER == 10
SRC_ERR_BAD_CHANNEL_COUNT == 11
SRC_ERR_BAD_MODE == 18
SRC_ERR_BAD_INTERNAL_STATE == 22

Threads == {1, 2}
Sessions == 1 .. NSessions
Handles == 1 .. MaxHandles
Fns == {1, 2}

\* Ratios are rationals q / RatioDen (with RatioDen 2: 1 is 0.5, 2 is 1.0,
\* 3 is 1.5); 0 is not a valid ratio (the engine rejects it).
RatioDen == 2
Ratios == {0, 1, 2, 3}

VARIABLES
  sess,      \* session objects (Resampler / CallbackResampler), by address
  eng,       \* engine handles (SRC_STATE), by identity
  gil,       \* holder of the interpreter lock, 0 when free
  pc,        \* where each thread is
  call,      \* the frame of the call each thread is in
  result,    \* what the last call handed back to its caller
  pcalls,    \* how often each producer function has been invoked
  crashed,   \* the process was terminated (std::terminate / a fault)
  xlog       \* observer's record of requests and results (see NoLog)

vars == <<sess, eng, gil, pc, call, result, pcalls, crashed, xlog>>

\* ----------------------------------------------------------------- helpers
Min(a, b) == IF a < b THEN a ELSE b

\* ceil(n * q / RatioDen), as std::ceil(num_frames * sr_ratio) computes it
CeilMul(n, q) == (n * q + RatioDen - 1) \div RatioDen

\* what a producer function hands back: None ("none"), an array ("arr") of
\* rank ndim with n frames and c channels, or it raises ("raise")
NoChunk == [k |-> "none", ndim |-> 0, n |-> 0, c |-> 0]
Arr(ndim, n, c) == [k |-> "arr", ndim |-> ndim, n |-> n, c |-> c]
Raise == [k |-> "raise", ndim |-> 0, n |-> 0, c |-> 0]
Junk == [k |-> "other", ndim |-> 0, n |-> 0, c |-> 0]

NoSession == [alive |-> FALSE, kind |-> "none", st |-> 0, conv |-> 0, ch |-> 0,
              ratio |-> 0, fn |-> 0, ndim |-> 0, cerr |-> "", cur |-> NoChunk]

NoHandle == [status |-> "unused", dels |-> 0, mode |-> "none", ch |-> 0, conv |-> 0,
             cbdata |-> 0, filt |-> 0, lastRatio |-> 0, err |-> 0, saved |-> 0]

\* The output buffer of a call and the capsule that owns it: made says that
\* the buffer was allocated, refs counts the references to the capsule, freed
\* how often the capsule's deleter ran (delete[]).
NoBuffer == [made |-> FALSE, refs |-> 0, freed |-> 0]

\* new float[...] and nb::capsule owner(output_data, deleter): the local
\* variable owner holds the one reference
capsule_ctor == [made |-> TRUE, refs |-> 1, freed |-> 0]

\* nb::ndarray(output_data, ..., owner, ...): the array takes a reference
ndarray_ctor(b) == [b EXCEPT !.refs = @ + 1]

\* a capsule whose last reference goes away without the deleter being run
capsule_dtor_leak(b) == [b EXCEPT !.refs = IF @ > 0 THEN @ - 1 ELSE 0]

\* the local variable owner goes out of scope, by return or by throw: its
\* reference is dropped, and the deleter runs when it was the last one
capsule_dtor(b) ==
  IF b.refs = 1 THEN [b EXCEPT !.refs = 0, !.freed = @ + 1]
  ELSE [b EXCEPT !.refs = IF @ > 0 THEN @ - 1 ELSE 0]

NoCall == [op |-> "none", s |-> 0, frames |-> 0, gen |-> 0, inframes |-> 0,
           eoi |-> FALSE, ndim |-> 0, ratio |-> 0, cap |-> 0, err |-> 0,
           conv |-> 0, ch |-> 0, stop |-> FALSE, chunk |-> NoChunk, cb |-> 0,
           bad |-> FALSE, buf |-> NoBuffer]

\* what a call hands back; buf is what has become of its output buffer
NoResult == [st |-> "none", rank |-> 0, gen |-> 0, from |-> 0, code |-> 0, shape |-> <<>>,
             buf |-> NoBuffer]

Ok(rank, gen, from) ==
  [st |-> "ok", rank |-> rank, gen |-> gen, from |-> from, code |-> 0, shape |-> <<>>,
   buf |-> NoBuffer]
Err(kind, code) ==
  [st |-> kind, rank |-> 0, gen |-> 0, from |-> 0, code |-> code, shape |-> <<>>,
   buf |-> NoBuffer]

\* an exception thrown after the output buffer b was allocated
Throw(kind, code, b) == [Err(kind, code) EXCEPT !.buf = capsule_dtor(b)]

\* the lowest free address: where the next session object is placed
FreeSlots == {s \in Sessions : ~sess[s].alive}
NewSlot == CHOOSE s \in FreeSlots : \A s2 \in FreeSlots : s <= s2

\* the next engine handle identity; identities are never reused
UnusedHandles == {h \in Handles : eng[h].status = "unused"}
NewHandle == CHOOSE h \in UnusedHandles : \A h2 \in UnusedHandles : h <= h2

\* a session some thread has a call in flight on
Busy(s) == \E t \in Threads : call[t].op # "none" /\ call[t].s = s

\* ------------------------------------------------- ConverterSelector (4.1)
\* A selector input is <<"str", name>>, <<"int", n>>, <<"enum", ordinal>> or
\* <<"other", 0>>.  get_converter_type_throws says that the function leaves by
\* throwing domain_error; get_converter_type is the integer it returns
\* otherwise (and the -1 of its last line where it throws).
ConverterNames == <<"sinc_best", "sinc_medium", "sinc_fastest", "zero_order_hold", "linear">>

get_converter_type_throws(obj) ==
  CASE obj[1] = "str" -> ~\E i \in 1 .. Len(ConverterNames) : ConverterNames[i] = obj[2]
    [] obj[1] = "int" -> FALSE
    [] obj[1] = "enum" -> FALSE
    [] OTHER -> TRUE

\* a selector that hands back the first converter for every integer it does
\* not know
get_converter_type_checked(obj) ==
  CASE obj[1] = "str" ->
         IF \E i \in 1 .. Len(ConverterNames) : ConverterNames[i] = obj[2]
         THEN (CHOOSE i \in 1 .. Len(ConverterNames) : ConverterNames[i] = obj[2]) - 1
         ELSE -1
    [] obj[1] = "int" -> IF obj[2] \in 0 .. 4 THEN obj[2] ELSE 0
    [] obj[1] = "enum" -> obj[2]
    [] OTHER -> -1

get_converter_type(obj) ==
  CASE obj[1] = "str" ->
         IF \E i \in 1 .. Len(ConverterNames) : ConverterNames[i] = obj[2]
         THEN (CHOOSE i \in 1 .. Len(ConverterNames) : ConverterNames[i] = obj[2]) - 1
         ELSE -1
    [] obj[1] = "int" -> obj[2]
    [] obj[1] = "enum" -> obj[2]
    [] OTHER -> -1

\* ----------------------------------------------------- ErrorTranslator (4.4)
error_handler(errnum) ==
  IF errnum > 0 /\ errnum < 24 THEN "ConversionFailed"
  ELSE IF errnum # 0 THEN "Fatal"
  ELSE "none"

\* --------------------------------------------------------- the engine
is_bad_src_ratio(q) == q <= 0

\* src_new / src_callback_new: a handle, or NULL (0) and an error code
src_new(e, conv, ch, mode, cbdata, mallocOk) ==
  IF conv \notin 0 .. 4 THEN [h |-> 0, err |-> SRC_ERR_BAD_CONVERTER, eng |-> e]
  ELSE IF ch < 1 THEN [h |-> 0, err |-> SRC_ERR_BAD_CHANNEL_COUNT, eng |-> e]
  ELSE IF ~mallocOk THEN [h |-> 0, err |-> SRC_ERR_MALLOC_FAILED, eng |-> e]
  ELSE LET h == CHOOSE x \in DOMAIN e : e[x].status = "unused"
                     /\ \A y \in DOMAIN e : e[y].status = "unused" => x <= y
       IN [h |-> h, err |-> SRC_ERR_NO_ERROR,
           eng |-> [e EXCEPT ![h] = [NoHandle EXCEPT !.status = "live", !.mode = mode,
                                       !.ch = ch, !.conv = conv, !.cbdata = cbdata]]]

\* src_clone: a new handle holding a copy of every field of the original,
\* the registered callback data included
src_clone(e, orig, mallocOk) ==
  IF orig = 0 THEN [h |-> 0, err |-> SRC_ERR_BAD_STATE, eng |-> e]
  ELSE IF ~mallocOk THEN [h |-> 0, err |-> SRC_ERR_MALLOC_FAILED, eng |-> e]
  ELSE LET h == CHOOSE x \in DOMAIN e : e[x].status = "unused"
                     /\ \A y \in DOMAIN e : e[y].status = "unused" => x <= y
       IN [h |-> h, err |-> SRC_ERR_NO_ERROR,
           eng |-> [e EXCEPT ![h] = [e[orig] EXCEPT !.status = "live", !.dels = 0]]]

\* src_delete: frees the handle; NULL is accepted
src_delete(e, h) ==
  IF h = 0 THEN e
  ELSE [e EXCEPT ![h] = [NoHandle EXCEPT !.status = "deleted",
                                          !.dels = Min(e[h].dels + 1, 2)]]

src_set_ratio(e, h, q) ==
  IF h = 0 THEN [err |-> SRC_ERR_BAD_STATE, eng |-> e]
  ELSE IF is_bad_src_ratio(q) THEN [err |-> SRC_ERR_BAD_SRC_RATIO, eng |-> e]
  ELSE [err |-> SRC_ERR_NO_ERROR, eng |-> [e EXCEPT ![h].lastRatio = q]]

src_reset(e, h) ==
  IF h = 0 THEN [err |-> SRC_ERR_BAD_STATE, eng |-> e]
  ELSE [err |-> SRC_ERR_NO_ERROR,
        eng |-> [e EXCEPT ![h].filt = 0, ![h].lastRatio = 0, ![h].saved = 0, ![h].err = 0]]

\* The conversion core as a delay line: of the input frames at hand (buffered
\* and offered) all but EngineLatency are converted mid-stream, all at end of
\* input; k input frames give k * q / RatioDen output frames, and never more
\* output is written than the room the caller declared.
Scaled(k, q) == (k * q) \div RatioDen

Convert(filt, inframes, room, eoi, q) ==
  LET pool == filt + inframes
      hold == IF eoi THEN 0 ELSE Min(pool, EngineLatency)
      fits == {k \in 0 .. pool - hold : Scaled(k, q) <= room}
      take == CHOOSE k \in fits : \A k2 \in fits : k2 <= k
      rest == pool - take
      keep == Min(rest, EngineLatency)
  IN [gen |-> Scaled(take, q), filt |-> keep, used |-> inframes - (rest - keep)]

\* The converter's process function (vt->const_process / vari_process); fault
\* is the engine misbehaving: "none", "err" (it reports an internal error),
\* "over" (it reports more frames than there was room for) or "neg" (it
\* reports a negative number of frames)
vt_process(e, h, inframes, room, q, eoi, fault) ==
  IF fault = "err"
    THEN [err |-> SRC_ERR_BAD_INTERNAL_STATE, gen |-> 0, used |-> 0, from |-> 0, eng |-> e]
  ELSE IF fault = "over"
    THEN [err |-> SRC_ERR_NO_ERROR, gen |-> room + 1, used |-> 0, from |-> 0, eng |-> e]
  ELSE IF fault = "neg"
    THEN [err |-> SRC_ERR_NO_ERROR, gen |-> 0 - 1, used |-> 0, from |-> 0, eng |-> e]
  ELSE LET c == Convert(e[h].filt, inframes, room, eoi, q)
           from == IF e[h].lastRatio = 0 THEN q ELSE e[h].lastRatio
       IN [err |-> SRC_ERR_NO_ERROR, gen |-> c.gen, used |-> c.used, from |-> from,
           eng |-> [e EXCEPT ![h].filt = c.filt, ![h].lastRatio = q]]

\* src_process(state, data)
src_process(e, h, inframes, room, q, eoi, fault) ==
  IF h = 0 THEN [err |-> SRC_ERR_BAD_STATE, gen |-> 0, used |-> 0, from |-> 0, eng |-> e]
  ELSE IF e[h].mode # "process"
    THEN [err |-> SRC_ERR_BAD_MODE, gen |-> 0, used |-> 0, from |-> 0, eng |-> e]
  ELSE IF is_bad_src_ratio(q)
    THEN [err |-> SRC_ERR_BAD_SRC_RATIO, gen |-> 0, used |-> 0, from |-> 0, eng |-> e]
  ELSE vt_process(e, h, inframes, room, q, eoi, fault)

\* src_simple(data, converter, channels): src_new, src_process with
\* end_of_input forced to 1, src_delete; the handle lives only inside the call
src_simple(conv, ch, inframes, room, q, mallocOk, fault) ==
  LET own == [x \in {1} |-> NoHandle]
      n == src_new(own, conv, ch, "process", 0, mallocOk)
  IN IF n.h = 0 THEN [err |-> n.err, gen |-> 0, used |-> 0, from |-> 0]
     ELSE LET p == src_process(n.eng, n.h, inframes, room, q, TRUE, fault)
          IN [err |-> p.err, gen |-> p.gen, used |-> p.used, from |-> p.from]

\* ------------------------------------------------- the interpreter lock
\* nb::gil_scoped_release: the constructor gives the lock up, the destructor
\* waits for it and takes it back.  nb::gil_scoped_acquire: the reverse.
\* Each operator is the holder of the lock after the event.
gil_scoped_release_kept(t) == t
gil_scoped_release_lost(t) == 0
gil_scoped_acquire_skipped(t) == 0
gil_scoped_acquire_held(t) == t
gil_scoped_release_ctor(t) == 0
gil_scoped_release_dtor(t) == t
gil_scoped_acquire_ctor(t) == t
gil_scoped_acquire_dtor(t) == 0

\* A thread in "py" is between two calls of the caller's code; the
\* interpreter hands it the lock when it makes its next call.
CanCall(t) == ~crashed /\ pc[t] = "py" /\ gil = 0

\* the call returns r to its caller, which runs with the lock held
Return(t, r) ==
  /\ pc' = [pc EXCEPT ![t] = "returned"]
  /\ result' = [result EXCEPT ![t] = r]
  /\ call' = [call EXCEPT ![t] = NoCall]

\* the caller takes the result and goes on; the interpreter may switch threads
Resume(t) ==
  /\ ~crashed /\ pc[t] = "returned"
  /\ pc' = [pc EXCEPT ![t] = "py"]
  /\ result' = [result EXCEPT ![t] = NoResult]
  /\ gil' = 0
  /\ UNCHANGED <<sess, eng, call, pcalls, crashed>>

\* ------------------------------------------------ Resampler (4.5)
\* a channel count that does not look at the array's second dimension
InputChannels_flat(x) == 1

\* the shape of an input array: channels is 1 for rank 1, shape(1) for rank 2
InputChannels(x) == IF x.ndim = 2 THEN x.c ELSE 1

\* (size_t) of a long: a negative number wraps to the top of the unsigned
\* range (taken here as 31 bits wide)
SIZE_MAX == 2147483647
size_t_cast(n) == IF n < 0 THEN SIZE_MAX + (n + 1) ELSE n

\* a capacity planned from the product rounded down
process_size_floor(num_frames, sr_ratio) ==
  (num_frames * sr_ratio) \div RatioDen + END_OF_INPUT_EXTRA_OUTPUT_FRAMES

\* the planned output capacity of process (BufferPlanner, 4.2)
process_new_size(num_frames, sr_ratio) ==
  CeilMul(num_frames, sr_ratio) + END_OF_INPUT_EXTRA_OUTPUT_FRAMES

\* a move that leaves the handle in the moved-from object as well
Resampler_move_keep(r) == [to |-> r, from |-> r]

\* Resampler(Resampler &&r): the new object, and what is left of r
Resampler_move(r) ==
  [to |-> r, from |-> [r EXCEPT !.st = 0, !.conv = 0, !.ch = 0]]

\* a copy that shares the handle of r
Resampler_copy_shallow(e, r, mallocOk) ==
  [obj |-> [NoSession EXCEPT !.alive = TRUE, !.kind = "inc", !.st = r.st,
                             !.conv = r.conv, !.ch = r.ch],
   err |-> SRC_ERR_NO_ERROR, eng |-> e]

\* a copy that starts from a new engine state
Resampler_copy_fresh(e, r, mallocOk) ==
  LET c == src_new(e, r.conv, r.ch, "process", 0, mallocOk)
  IN [obj |-> [NoSession EXCEPT !.alive = TRUE, !.kind = "inc", !.st = c.h,
                                !.conv = r.conv, !.ch = r.ch],
      err |-> c.err, eng |-> c.eng]

\* a copy that does not look at the status src_clone hands back
Resampler_copy_unchecked(e, r, mallocOk) ==
  LET c == src_clone(e, r.st, mallocOk)
  IN [obj |-> [NoSession EXCEPT !.alive = TRUE, !.kind = "inc", !.st = c.h,
                                !.conv = r.conv, !.ch = r.ch],
      err |-> SRC_ERR_NO_ERROR, eng |-> c.eng]

\* Resampler(const Resampler &r): the copy's handle comes from src_clone
Resampler_copy(e, r, mallocOk) ==
  LET c == src_clone(e, r.st, mallocOk)
  IN [obj |-> [NoSession EXCEPT !.alive = TRUE, !.kind = "inc", !.st = c.h,
                                !.conv = r.conv, !.ch = r.ch],
      err |-> c.err, eng |-> c.eng]

\* ~Resampler()
Resampler_dtor(e, r) == src_delete(e, r.st)

\* Resampler(converter_type, channels)
RConstruct(t, obj, ch, mallocOk) ==
  /\ CanCall(t) /\ FreeSlots # {} /\ UnusedHandles # {}
  /\ LET conv == get_converter_type(obj)
         n == src_new(eng, conv, ch, "process", 0, mallocOk)
     IN IF get_converter_type_throws(obj)
        THEN Return(t, Err("InvalidConverter", 0)) /\ UNCHANGED <<sess, eng>>
        ELSE IF error_handler(n.err) # "none"
        THEN Return(t, Err(error_handler(n.err), n.err)) /\ UNCHANGED <<sess, eng>>
        ELSE /\ sess' = [sess EXCEPT ![NewSlot] =
                           [NoSession EXCEPT !.alive = TRUE, !.kind = "inc", !.st = n.h,
                                             !.conv = conv, !.ch = ch]]
             /\ eng' = n.eng
             /\ Return(t, Ok(0, 0, 0))
  /\ gil' = t
  /\ UNCHANGED <<pcalls, crashed>>

\* Resampler::clone(): the copy is built in a temporary, moved into the
\* object handed to the caller, and the temporary is destroyed
RClone(t, s, mallocOk) ==
  /\ CanCall(t) /\ sess[s].alive /\ sess[s].kind = "inc" /\ ~Busy(s)
  /\ FreeSlots # {} /\ UnusedHandles # {}
  /\ LET c == Resampler_copy(eng, sess[s], mallocOk)
         m == Resampler_move(c.obj)
     IN IF error_handler(c.err) # "none"
        THEN Return(t, Err(error_handler(c.err), c.err)) /\ UNCHANGED <<sess, eng>>
        ELSE /\ sess' = [sess EXCEPT ![NewSlot] = m.to]
             /\ eng' = Resampler_dtor(c.eng, m.from)
             /\ Return(t, Ok(0, 0, 0))
  /\ gil' = t
  /\ UNCHANGED <<pcalls, crashed>>

\* Resampler::set_ratio
RSetRatio(t, s, q) ==
  /\ CanCall(t) /\ sess[s].alive /\ sess[s].kind = "inc" /\ ~Busy(s)
  /\ LET r == src_set_ratio(eng, sess[s].st, q)
     IN /\ eng' = r.eng
        /\ Return(t, IF error_handler(r.err) # "none"
                     THEN Err(error_handler(r.err), r.err) ELSE Ok(0, 0, 0))
  /\ gil' = t
  /\ UNCHANGED <<sess, pcalls, crashed>>

\* Resampler::reset
RReset(t, s) ==
  /\ CanCall(t) /\ sess[s].alive /\ sess[s].kind = "inc" /\ ~Busy(s)
  /\ LET r == src_reset(eng, sess[s].st)
     IN /\ eng' = r.eng
        /\ Return(t, IF error_handler(r.err) # "none"
                     THEN Err(error_handler(r.err), r.err) ELSE Ok(0, 0, 0))
  /\ gil' = t
  /\ UNCHANGED <<sess, pcalls, crashed>>

\* the last reference to a Resampler goes away: ~Resampler()
RDestroy(t, s) ==
  /\ CanCall(t) /\ sess[s].alive /\ sess[s].kind = "inc" /\ ~Busy(s)
  /\ eng' = Resampler_dtor(eng, sess[s])
  /\ sess' = [sess EXCEPT ![s] = NoSession]
  /\ Return(t, Ok(0, 0, 0))
  /\ gil' = t
  /\ UNCHANGED <<pcalls, crashed>>

\* Resampler::process up to the engine call: the checks, the buffer, and the
\* lock given up for the engine
ProcessBegin(t, s, x, q, eoi) ==
  /\ CanCall(t) /\ sess[s].alive /\ sess[s].kind = "inc" /\ ~Busy(s)
  /\ IF x.ndim > 2
     THEN Return(t, Err("InvalidShape", 0)) /\ gil' = t
     ELSE IF InputChannels(x) # sess[s].ch \/ InputChannels(x) = 0
     THEN Return(t, Err("InvalidShape", 0)) /\ gil' = t
     ELSE /\ call' = [call EXCEPT ![t] =
                        [NoCall EXCEPT !.op = "process", !.s = s, !.frames = x.n,
                                       !.ndim = x.ndim, !.ratio = q, !.eoi = eoi,
                                       !.ch = InputChannels(x),
                                       !.cap = process_new_size(x.n, q),
                                       !.buf = capsule_ctor]]
          /\ pc' = [pc EXCEPT ![t] = "proc_engine"]
          /\ gil' = gil_scoped_release_ctor(t)
          /\ UNCHANGED result
  /\ UNCHANGED <<sess, eng, pcalls, crashed>>

\* a result array of rank 1 whatever the input's rank
ResultRank_one(ndim) == 1

\* the result array: rank as the input's rank
ResultRank(ndim) == IF ndim = 2 THEN 2 ELSE 1

\* output_shape of the result array: (frames, channels) for rank 2, (frames)
\* for rank 1
ResultShape(rank, gen, channels) == IF rank = 2 THEN <<gen, channels>> ELSE <<gen>>

\* the ndarray handed back: rank, frames and shape; the array is built on the
\* buffer b and its capsule, and the local owner goes out of scope
OkArray(rank, gen, from, channels, b) ==
  [Ok(rank, gen, from) EXCEPT !.shape = ResultShape(rank, gen, channels),
                               !.buf = capsule_dtor(ndarray_ctor(b))]

\* src_process runs without the lock; the lock is taken back, the status is
\* translated and the result is shaped; the buffer goes to the caller with the
\* result or is freed when the call throws
ProcessEnd(t, fault) ==
  /\ ~crashed /\ pc[t] = "proc_engine" /\ gil = 0
  /\ LET c == call[t]
         p == src_process(eng, sess[c.s].st, c.frames, c.cap, c.ratio, c.eoi, fault)
     IN /\ eng' = p.eng
        /\ Return(t, IF error_handler(p.err) # "none"
                     THEN Throw(error_handler(p.err), p.err, c.buf)
                     ELSE IF size_t_cast(p.gen) > c.cap THEN Throw("Fatal", 0, c.buf)
                     ELSE OkArray(ResultRank(c.ndim), p.gen, p.from, c.ch, c.buf))
  /\ gil' = gil_scoped_release_dtor(t)
  /\ UNCHANGED <<sess, pcalls, crashed>>

\* ------------------------------------------------ resample (bulk)
\* a capacity planned without the extra frames for the end of the input
resample_size_exact(num_frames, sr_ratio) == CeilMul(num_frames, sr_ratio)

\* the planned output capacity of resample
resample_new_size(num_frames, sr_ratio) ==
  CeilMul(num_frames, sr_ratio) + END_OF_INPUT_EXTRA_OUTPUT_FRAMES

ResampleBegin(t, x, q, obj) ==
  /\ CanCall(t)
  /\ IF get_converter_type_throws(obj)
     THEN Return(t, Err("InvalidConverter", 0)) /\ gil' = t
     ELSE IF x.ndim > 2
     THEN Return(t, Err("InvalidShape", 0)) /\ gil' = t
     ELSE IF InputChannels(x) = 0
     THEN Return(t, Err("InvalidShape", 0)) /\ gil' = t
     ELSE /\ call' = [call EXCEPT ![t] =
                        [NoCall EXCEPT !.op = "resample", !.frames = x.n, !.ndim = x.ndim,
                                       !.ratio = q, !.conv = get_converter_type(obj),
                                       !.ch = InputChannels(x),
                                       !.cap = resample_new_size(x.n, q),
                                       !.buf = capsule_ctor]]
          /\ pc' = [pc EXCEPT ![t] = "bulk_engine"]
          /\ gil' = gil_scoped_release_ctor(t)
          /\ UNCHANGED result
  /\ UNCHANGED <<sess, eng, pcalls, crashed>>

ResampleEnd(t, mallocOk, fault) ==
  /\ ~crashed /\ pc[t] = "bulk_engine" /\ gil = 0
  /\ LET c == call[t]
         p == src_simple(c.conv, c.ch, c.frames, c.cap, c.ratio, mallocOk, fault)
     IN Return(t, IF error_handler(p.err) # "none"
                  THEN Throw(error_handler(p.err), p.err, c.buf)
                  ELSE IF size_t_cast(p.gen) > c.cap THEN Throw("Fatal", 0, c.buf)
                  ELSE OkArray(ResultRank(c.ndim), p.gen, p.from, c.ch, c.buf))
  /\ gil' = gil_scoped_release_dtor(t)
  /\ UNCHANGED <<sess, eng, pcalls, crashed>>

\* ------------------------------------------------ CallbackResampler (4.6)
\* a _create that asks for the default converter and one channel
CallbackResampler_create_default(e, r, self, mallocOk) ==
  src_new(e, 0, 1, "callback", self, mallocOk)

\* CallbackResampler::_create: the handle is registered with the address of
\* this object as the callback's data
CallbackResampler_create(e, r, self, mallocOk) ==
  src_new(e, r.conv, r.ch, "callback", self, mallocOk)

\* a _destroy that frees the handle and keeps the pointer to it
CallbackResampler_destroy_keep(e, r) == [eng |-> src_delete(e, r.st), obj |-> r]

\* CallbackResampler::_destroy
CallbackResampler_destroy(e, r) ==
  IF r.st # 0 THEN [eng |-> src_delete(e, r.st), obj |-> [r EXCEPT !.st = 0]]
  ELSE [eng |-> e, obj |-> r]

\* CallbackResampler(const CallbackResampler &r): callback, ratio, converter
\* and channels are copied, the handle comes from src_clone, the rest is default
CallbackResampler_copy(e, r, mallocOk) ==
  LET c == src_clone(e, r.st, mallocOk)
  IN [obj |-> [NoSession EXCEPT !.alive = TRUE, !.kind = "cb", !.st = c.h, !.fn = r.fn,
                                !.ratio = r.ratio, !.conv = r.conv, !.ch = r.ch],
      err |-> c.err, eng |-> c.eng]

\* CallbackResampler(CallbackResampler &&r)
CallbackResampler_move(r) ==
  [to |-> r,
   from |-> [r EXCEPT !.st = 0, !.fn = 0, !.ndim = 0, !.ratio = 0, !.conv = 0, !.ch = 0,
                      !.cerr = "", !.cur = NoChunk]]

\* CallbackResampler(callback, ratio, converter_type, channels)
CConstruct(t, fn, q, obj, ch, mallocOk) ==
  /\ CanCall(t) /\ FreeSlots # {} /\ UnusedHandles # {}
  /\ LET conv == get_converter_type(obj)
         r == [NoSession EXCEPT !.alive = TRUE, !.kind = "cb", !.fn = fn, !.ratio = q,
                                !.conv = conv, !.ch = ch]
         n == CallbackResampler_create(eng, r, NewSlot, mallocOk)
     IN IF get_converter_type_throws(obj)
        THEN Return(t, Err("InvalidConverter", 0)) /\ UNCHANGED <<sess, eng>>
        ELSE IF n.h = 0
        THEN Return(t, Err(error_handler(n.err), n.err)) /\ UNCHANGED <<sess, eng>>
        ELSE /\ sess' = [sess EXCEPT ![NewSlot] = [r EXCEPT !.st = n.h]]
             /\ eng' = n.eng
             /\ Return(t, Ok(0, 0, 0))
  /\ gil' = t
  /\ UNCHANGED <<pcalls, crashed>>

\* CallbackResampler::clone(): copy, move into the caller's object, destroy
\* the temporary
CClone(t, s, mallocOk) ==
  /\ CanCall(t) /\ sess[s].alive /\ sess[s].kind = "cb" /\ ~Busy(s)
  /\ FreeSlots # {} /\ UnusedHandles # {}
  /\ LET c == CallbackResampler_copy(eng, sess[s], mallocOk)
         m == CallbackResampler_move(c.obj)
     IN IF c.obj.st = 0
        THEN Return(t, Err(error_handler(c.err), c.err)) /\ UNCHANGED <<sess, eng>>
        ELSE /\ sess' = [sess EXCEPT ![NewSlot] = m.to]
             /\ eng' = CallbackResampler_destroy(c.eng, m.from).eng
             /\ Return(t, Ok(0, 0, 0))
  /\ gil' = t
  /\ UNCHANGED <<pcalls, crashed>>

\* a set_starting_ratio that records the ratio before it asks the engine
set_starting_ratio_first(e, r, q) ==
  LET x == src_set_ratio(e, r.st, q)
  IN [obj |-> [r EXCEPT !.ratio = q], err |-> x.err, eng |-> x.eng]

\* the body of set_starting_ratio on object r: the engine is asked, the
\* status is translated, and only then is the ratio recorded
set_starting_ratio(e, r, q) ==
  LET x == src_set_ratio(e, r.st, q)
  IN IF error_handler(x.err) # "none"
     THEN [obj |-> r, err |-> x.err, eng |-> x.eng]
     ELSE [obj |-> [r EXCEPT !.ratio = q], err |-> x.err, eng |-> x.eng]

\* CallbackResampler::set_starting_ratio
CSetStartingRatio(t, s, q) ==
  /\ CanCall(t) /\ sess[s].alive /\ sess[s].kind = "cb" /\ ~Busy(s)
  /\ LET r == set_starting_ratio(eng, sess[s], q)
     IN /\ eng' = r.eng
        /\ sess' = [sess EXCEPT ![s] = r.obj]
        /\ Return(t, IF error_handler(r.err) # "none"
                     THEN Err(error_handler(r.err), r.err)
                     ELSE Ok(0, 0, 0))
  /\ gil' = t
  /\ UNCHANGED <<pcalls, crashed>>

\* CallbackResampler::reset
CReset(t, s) ==
  /\ CanCall(t) /\ sess[s].alive /\ sess[s].kind = "cb" /\ ~Busy(s)
  /\ LET r == src_reset(eng, sess[s].st)
     IN /\ eng' = r.eng
        /\ Return(t, IF error_handler(r.err) # "none"
                     THEN Err(error_handler(r.err), r.err) ELSE Ok(0, 0, 0))
  /\ gil' = t
  /\ UNCHANGED <<sess, pcalls, crashed>>

\* CallbackResampler::__exit__ (any arguments)
CExit(t, s) ==
  /\ CanCall(t) /\ sess[s].alive /\ sess[s].kind = "cb" /\ ~Busy(s)
  /\ LET d == CallbackResampler_destroy(eng, sess[s])
     IN eng' = d.eng /\ sess' = [sess EXCEPT ![s] = d.obj]
  /\ Return(t, Ok(0, 0, 0))
  /\ gil' = t
  /\ UNCHANGED <<pcalls, crashed>>

\* the last reference to a CallbackResampler goes away: ~CallbackResampler()
CDestroy(t, s) ==
  /\ CanCall(t) /\ sess[s].alive /\ sess[s].kind = "cb" /\ ~Busy(s)
  /\ LET d == CallbackResampler_destroy(eng, sess[s])
     IN eng' = d.eng /\ sess' = [sess EXCEPT ![s] = NoSession]
  /\ Return(t, Ok(0, 0, 0))
  /\ gil' = t
  /\ UNCHANGED <<pcalls, crashed>>

\* ------------------------------------------------ read and the bridge
\* a producer is finite: after MaxProducerCalls invocations it has nothing
\* left and hands back None
ProducerMay(fn, chunk) == pcalls[fn] >= MaxProducerCalls => chunk = NoChunk

\* src_callback_read on entry: nothing is done for frames <= 0; a bad ratio is
\* recorded in the handle and ends the call
src_callback_read_enter(e, h, q, frames) ==
  IF frames <= 0 THEN [stop |-> TRUE, eng |-> e]
  ELSE IF is_bad_src_ratio(q)
    THEN [stop |-> TRUE, eng |-> [e EXCEPT ![h].err = SRC_ERR_BAD_SRC_RATIO]]
  ELSE [stop |-> FALSE, eng |-> e]

\* one pass of the body of src_callback_read's loop after the input is known:
\* src_process on what is at hand, then the counts are advanced
src_callback_read_process(e, h, c, fault) ==
  LET p == vt_process(e, h, c.inframes, c.frames - c.gen, c.ratio, c.eoi, fault)
  IN IF p.err # 0
     THEN [call |-> [c EXCEPT !.gen = 0, !.stop = TRUE],
           eng |-> [e EXCEPT ![h].err = p.err, ![h].saved = c.inframes]]
     ELSE [call |-> [c EXCEPT !.gen = c.gen + p.gen, !.inframes = c.inframes - p.used,
                              !.stop = (c.eoi /\ p.gen = 0)],
           eng |-> p.eng]

\* a read that asks the producer for a chunk itself, before the engine call
\* and with the lock still held
ReadBegin_eager(t, s, frames, mallocOk) ==
  /\ CanCall(t) /\ sess[s].alive /\ sess[s].kind = "cb" /\ ~Busy(s) /\ sess[s].st # 0
  /\ call' = [call EXCEPT ![t] = [NoCall EXCEPT !.op = "read", !.s = s, !.frames = frames,
                                                 !.ratio = sess[s].ratio, !.cb = s]]
  /\ pc' = [pc EXCEPT ![t] = "producer"]
  /\ gil' = t
  /\ UNCHANGED <<sess, eng, result, pcalls, crashed>>

\* CallbackResampler::read up to the engine call: the buffer is allocated
\* first, then the handle is made when there is none
ReadBegin(t, s, frames, mallocOk) ==
  /\ CanCall(t) /\ sess[s].alive /\ sess[s].kind = "cb" /\ ~Busy(s)
  /\ sess[s].st = 0 => UnusedHandles # {}
  /\ LET n == IF sess[s].st = 0
              THEN CallbackResampler_create(eng, sess[s], s, mallocOk)
              ELSE [h |-> sess[s].st, err |-> 0, eng |-> eng]
         en == src_callback_read_enter(n.eng, n.h, sess[s].ratio, frames)
     IN IF n.h = 0
        THEN /\ Return(t, Throw(error_handler(n.err), n.err, capsule_ctor))
             /\ gil' = t
             /\ UNCHANGED <<sess, eng>>
        ELSE /\ sess' = [sess EXCEPT ![s].st = n.h, ![s].cerr = ""]
             /\ eng' = en.eng
             /\ call' = [call EXCEPT ![t] =
                           [NoCall EXCEPT !.op = "read", !.s = s, !.frames = frames,
                                          !.ratio = sess[s].ratio,
                                          !.inframes = n.eng[n.h].saved,
                                          !.stop = en.stop, !.cb = n.eng[n.h].cbdata,
                                          !.buf = capsule_ctor]]
             /\ pc' = [pc EXCEPT ![t] = "read_engine"]
             /\ gil' = gil_scoped_release_ctor(t)
             /\ UNCHANGED result
  /\ UNCHANGED <<pcalls, crashed>>

\* the head of src_callback_read's loop: leave, ask the bridge for input, or
\* convert the input left over
EngineStep(t, fault) ==
  /\ ~crashed /\ pc[t] = "read_engine"
  /\ LET c == call[t]
         h == sess[c.s].st
     IN IF c.stop \/ c.gen >= c.frames
        THEN /\ pc' = [pc EXCEPT ![t] = "read_exit"]
             /\ eng' = IF c.frames <= 0 \/ is_bad_src_ratio(c.ratio) THEN eng
                       ELSE [eng EXCEPT ![h].saved = c.inframes]
             /\ UNCHANGED call
        ELSE IF c.inframes = 0
        THEN /\ pc' = [pc EXCEPT ![t] = "bridge_acq"]
             /\ call' = [call EXCEPT ![t].ch = sess[c.cb].ch]
             /\ UNCHANGED eng
        ELSE LET r == src_callback_read_process(eng, h, c, fault)
             IN /\ call' = [call EXCEPT ![t] = r.call]
                /\ eng' = r.eng
                /\ UNCHANGED pc
  /\ UNCHANGED <<sess, gil, result, pcalls, crashed>>

\* the object behind cb_data is a CallbackResampler that still exists
CbValid(cb) == sess[cb].alive /\ sess[cb].kind = "cb"

\* the_callback_func: nb::gil_scoped_acquire
BridgeAcquire(t) ==
  /\ ~crashed /\ pc[t] = "bridge_acq" /\ gil = 0
  /\ pc' = [pc EXCEPT ![t] = "producer"]
  /\ gil' = gil_scoped_acquire_ctor(t)
  /\ UNCHANGED <<sess, eng, call, result, pcalls, crashed>>

\* cb_data points at an object that no longer exists (or at another object
\* placed at its address): using it is undefined; one outcome is a fault
BridgeFault(t) ==
  /\ ~crashed /\ pc[t] \in {"bridge_acq", "producer"} /\ ~CbValid(call[t].cb)
  /\ crashed' = TRUE
  /\ UNCHANGED <<sess, eng, gil, pc, call, result, pcalls>>

\* a callback() that takes the rank of a chunk only when the chunk has frames
callback_update_frames(r, chunk) ==
  IF chunk.k = "arr"
  THEN [r EXCEPT !.ndim = IF chunk.n > 0 /\ r.ndim = 0 THEN chunk.ndim ELSE r.ndim,
                 !.cur = chunk]
  ELSE r

\* a callback() that takes the rank of every chunk it gets
callback_update_last(r, chunk) ==
  IF chunk.k = "arr" THEN [r EXCEPT !.ndim = chunk.ndim, !.cur = chunk] ELSE r

\* CallbackResampler::callback on the object behind cb_data: the rank
\* bookkeeping and the cached view
callback_update(r, chunk) ==
  IF chunk.k = "arr"
  THEN [r EXCEPT !.ndim = IF chunk.ndim > 0 /\ r.ndim = 0 THEN chunk.ndim ELSE r.ndim,
                 !.cur = chunk]
  ELSE r

\* a bridge that checks the channel count inside the acquire scope too
bridge_locked_checks(r, chunk) ==
  IF chunk.k = "arr" /\ chunk.ndim > 2 THEN [r EXCEPT !.cerr = "dims"]
  ELSE IF chunk.k = "arr" /\ chunk.ndim \in {1, 2} /\ InputChannels(chunk) # r.ch
  THEN [r EXCEPT !.cerr = "channels"]
  ELSE r

\* the part of the_callback_func inside the acquire scope, after callback()
\* returned: a rank above 2 is recorded as the deferred error
bridge_locked(r, chunk) ==
  IF chunk.k = "arr" /\ chunk.ndim > 2 THEN [r EXCEPT !.cerr = "dims"] ELSE r

\* the producer function runs and returns (or raises); callback() and the rest
\* of the acquire scope follow, and the scope's end gives the lock up
Producer(t, chunk) ==
  /\ ~crashed /\ pc[t] = "producer"
  /\ LET cb == call[t].cb
         fn == sess[cb].fn
     IN IF fn = 0
        THEN /\ pc' = [pc EXCEPT ![t] = "unwind"]
             /\ UNCHANGED <<sess, call, pcalls>>
        ELSE /\ ProducerMay(fn, chunk)
             /\ pcalls' = [pcalls EXCEPT ![fn] = Min(pcalls[fn] + 1, MaxProducerCalls)]
             /\ IF chunk.k \in {"raise", "other"}
                THEN /\ pc' = [pc EXCEPT ![t] = "unwind"]
                     /\ UNCHANGED <<sess, call>>
                ELSE /\ sess' = [sess EXCEPT ![cb] =
                                   bridge_locked(callback_update(sess[cb], chunk), chunk)]
                     /\ call' = [call EXCEPT ![t].chunk = chunk]
                     /\ pc' = [pc EXCEPT ![t] = "bridge_post"]
  /\ gil' = gil_scoped_acquire_dtor(t)
  /\ UNCHANGED <<eng, result, crashed>>

\* a chunk of rank 1 or 2 whose channel count is not ch
ChannelsDiffer(chunk, ch) ==
  chunk.k = "arr" /\ chunk.ndim \in {1, 2} /\ InputChannels(chunk) # ch

\* a bridge that reports a frame whatever the producer handed back
bridge_frames_one(chunk, cb_channels) == 1

\* the number of frames the bridge reports to the engine
bridge_frames(chunk, cb_channels) ==
  IF chunk.k # "arr" \/ chunk.ndim = 0 \/ chunk.ndim > 2 THEN 0
  ELSE IF InputChannels(chunk) # cb_channels \/ InputChannels(chunk) = 0 THEN 0
  ELSE chunk.n

\* the channel check after the acquire scope: a mismatch is recorded as the
\* deferred error of the object behind cb_data
bridge_unlocked(r, chunk, cb_channels) ==
  IF chunk.k = "arr" /\ chunk.ndim \in {1, 2}
     /\ (InputChannels(chunk) # cb_channels \/ InputChannels(chunk) = 0)
  THEN [r EXCEPT !.cerr = "channels"]
  ELSE r

\* the rest of the_callback_func (no lock held), its return to the engine, and
\* the engine's src_process on what it was given
BridgePost(t, fault) ==
  /\ ~crashed /\ pc[t] = "bridge_post"
  /\ LET c == call[t]
         h == sess[c.s].st
         n == bridge_frames(c.chunk, c.ch)
         c2 == [c EXCEPT !.inframes = n, !.eoi = (n = 0),
                         !.bad = @ \/ ChannelsDiffer(c.chunk, sess[c.s].ch)]
         r == src_callback_read_process(eng, h, c2, fault)
     IN /\ sess' = [sess EXCEPT ![c.cb] = bridge_unlocked(sess[c.cb], c.chunk, c.ch)]
        /\ call' = [call EXCEPT ![t] = r.call]
        /\ eng' = r.eng
  /\ pc' = [pc EXCEPT ![t] = "read_engine"]
  /\ UNCHANGED <<gil, result, pcalls, crashed>>

\* the rank of read's result
ReadRank(r) == IF r.ch = 1 /\ r.ndim = 1 THEN 1 ELSE 2

\* a read that looks at the engine's status before the deferred error
read_check_status_first(cerr, gen, err_code) ==
  IF gen = 0 /\ error_handler(err_code) # "none" THEN error_handler(err_code)
  ELSE IF cerr # "" THEN "CallbackError"
  ELSE "none"

\* what read throws after the engine call: the deferred error when the slot
\* is set, else the translation of the status taken on a result of no frames
read_check(cerr, gen, err_code) ==
  IF cerr # "" THEN "CallbackError"
  ELSE IF gen = 0 THEN error_handler(err_code)
  ELSE "none"

\* read after src_callback_read returned: the lock is taken back, the deferred
\* error is looked at, then the engine's status
ReadEnd(t) ==
  /\ ~crashed /\ pc[t] = "read_exit" /\ gil = 0
  /\ LET c == call[t]
         r == sess[c.s]
         err_code == IF c.gen = 0 THEN eng[r.st].err ELSE 0
         k == read_check(r.cerr, c.gen, err_code)
     IN Return(t, IF k = "CallbackError" THEN Throw("CallbackError", 0, c.buf)
                  ELSE IF k # "none" THEN Throw(k, err_code, c.buf)
                  ELSE OkArray(ReadRank(r), c.gen, 0, r.ch, c.buf))
  /\ gil' = gil_scoped_release_dtor(t)
  /\ UNCHANGED <<sess, eng, pcalls, crashed>>

\* An exception thrown inside the bridge leaves through the engine's frame,
\* which is C code: undefined.  Either the unwinder passes the frame and the
\* exception reaches read's caller (the release scope's end taking the lock
\* back on the way), or the process is terminated.
UnwindPropagate(t) ==
  /\ ~crashed /\ pc[t] = "unwind" /\ gil = 0
  /\ Return(t, Throw("ProducerException", 0, call[t].buf))
  /\ gil' = gil_scoped_release_dtor(t)
  /\ UNCHANGED <<sess, eng, pcalls, crashed>>

UnwindTerminate(t) ==
  /\ ~crashed /\ pc[t] = "unwind"
  /\ crashed' = TRUE
  /\ UNCHANGED <<sess, eng, gil, pc, call, result, pcalls>>

\* ------------------------------------------------ the specifications
\* xlog is a record of what was asked of a session and of its copy since the
\* copy was made: orig and copy are the two sessions, same says that both were
\* asked the same things so far, reqs is what they were asked, ra and rb are
\* what orig and copy answered, on is the session of the last call.
NoLog == [orig |-> 0, copy |-> 0, same |-> FALSE, reqs |-> <<>>, ra |-> <<>>,
          rb |-> <<>>, on |-> 0]

InitProgram ==
  /\ sess = [s \in Sessions |-> NoSession]
  /\ eng = [h \in Handles |-> NoHandle]
  /\ gil = 0
  /\ pc = [t \in Threads |-> "py"]
  /\ call = [t \in Threads |-> NoCall]
  /\ result = [t \in Threads |-> NoResult]
  /\ pcalls = [f \in Fns |-> 0]
  /\ crashed = FALSE

Init == InitProgram /\ xlog = NoLog

\* arguments the callers of the model use
Linear == <<"str", "linear">>
Mono == [ndim |-> 1, n |-> 1, c |-> 0]
ReadFrames == 0 .. MaxFrames
Faults == {"none", "err", "over", "neg"}

\* the steps of a read in flight, with the producer handing back any of chunks
ReadSteps(t, chunks, faults) ==
  \/ \E f \in faults : EngineStep(t, f) /\ UNCHANGED xlog
  \/ BridgeAcquire(t) /\ UNCHANGED xlog
  \/ \E ch \in chunks : Producer(t, ch) /\ UNCHANGED xlog
  \/ \E f \in faults : BridgePost(t, f) /\ UNCHANGED xlog
  \/ ReadEnd(t) /\ UNCHANGED xlog
  \/ UnwindPropagate(t) /\ UNCHANGED xlog
  \/ UnwindTerminate(t) /\ UNCHANGED xlog

\* Two threads drive sessions of both kinds and the bulk entry point: where
\* the lock is while each call runs.
Next ==
  \E t \in Threads :
    \/ RConstruct(t, Linear, 1, TRUE) /\ UNCHANGED xlog
    \/ \E s \in Sessions : ProcessBegin(t, s, Mono, 2, FALSE) /\ UNCHANGED xlog
    \/ \E f \in Faults : ProcessEnd(t, f) /\ UNCHANGED xlog
    \/ \E x \in {Mono, [ndim |-> 3, n |-> 1, c |-> 1]} :
         ResampleBegin(t, x, 2, Linear) /\ UNCHANGED xlog
    \/ \E f \in Faults : ResampleEnd(t, TRUE, f) /\ UNCHANGED xlog
    \/ \E q \in {0, 2} : CConstruct(t, 1, q, Linear, 1, TRUE) /\ UNCHANGED xlog
    \/ \E s \in Sessions : CDestroy(t, s) /\ UNCHANGED xlog
    \/ \E s \in Sessions, n \in ReadFrames : ReadBegin(t, s, n, TRUE) /\ UNCHANGED xlog
    \/ ReadSteps(t, {NoChunk, Raise, Junk, Arr(1, 1, 1), Arr(2, 1, 2)}, {"none"})
    \/ Resume(t) /\ UNCHANGED xlog

Spec == Init /\ [][Next]_vars

\* One thread makes the calls that create, copy, move, use, close and destroy
\* sessions of both kinds: the life cycle of sessions and handles.
NextLife ==
  \E t \in {1} :
    \/ \E obj \in {Linear, <<"int", 7>>}, ch \in {0, 1}, ok \in BOOLEAN :
         RConstruct(t, obj, ch, ok) /\ UNCHANGED xlog
    \/ \E s \in Sessions, ok \in BOOLEAN : RClone(t, s, ok) /\ UNCHANGED xlog
    \/ \E s \in Sessions : RDestroy(t, s) /\ UNCHANGED xlog
    \/ \E s \in Sessions, eoi \in BOOLEAN : ProcessBegin(t, s, Mono, 2, eoi) /\ UNCHANGED xlog
    \/ ProcessEnd(t, "none") /\ UNCHANGED xlog
    \/ \E obj \in {Linear, <<"str", "cubic">>}, ch \in {0, 1}, ok \in BOOLEAN :
         CConstruct(t, 1, 2, obj, ch, ok) /\ UNCHANGED xlog
    \/ \E s \in Sessions, ok \in BOOLEAN : CClone(t, s, ok) /\ UNCHANGED xlog
    \/ \E s \in Sessions : CExit(t, s) /\ UNCHANGED xlog
    \/ \E s \in Sessions : CDestroy(t, s) /\ UNCHANGED xlog
    \/ \E s \in Sessions, n \in ReadFrames, ok \in BOOLEAN :
         ReadBegin(t, s, n, ok) /\ UNCHANGED xlog
    \/ ReadSteps(t, {NoChunk, Raise, Arr(1, 1, 1)}, {"none"})
    \/ BridgeFault(t) /\ UNCHANGED xlog
    \/ Resume(t) /\ UNCHANGED xlog

SpecLife == Init /\ [][NextLife]_vars

\* One thread works on IncrementalSessions and their copies; xlog records what
\* a session and its copy are asked and what they answer.
LogOther(s) == [xlog EXCEPT !.on = s,
                            !.same = IF s \in {xlog.orig, xlog.copy} THEN FALSE ELSE @]

LogClone(s, c, ok) ==
  IF ok THEN [NoLog EXCEPT !.orig = s, !.copy = c, !.same = TRUE, !.on = s]
  ELSE [xlog EXCEPT !.on = s]

LogDestroy(s) == IF s \in {xlog.orig, xlog.copy} THEN [NoLog EXCEPT !.on = s]
                 ELSE [xlog EXCEPT !.on = s]

LogProcess(s, req, res) ==
  LET mine == IF s = xlog.orig THEN xlog.ra ELSE xlog.rb
      k == Len(mine) + 1
  IN IF s \notin {xlog.orig, xlog.copy} \/ ~xlog.same \/ k > MaxLog
       THEN [xlog EXCEPT !.on = s]
     ELSE IF k <= Len(xlog.reqs) /\ xlog.reqs[k] # req
       THEN [xlog EXCEPT !.on = s, !.same = FALSE]
     ELSE [xlog EXCEPT !.on = s,
                       !.reqs = IF k > Len(@) THEN Append(@, req) ELSE @,
                       !.ra = IF s = xlog.orig THEN Append(@, res) ELSE @,
                       !.rb = IF s = xlog.copy THEN Append(@, res) ELSE @]

Request(c) == [n |-> c.frames, ndim |-> c.ndim, q |-> c.ratio, eoi |-> c.eoi]

CloneInputs == {[ndim |-> 1, n |-> n, c |-> 0] : n \in 1 .. MaxFrames}

NextClone ==
  \E t \in {1} :
    \/ RConstruct(t, Linear, 1, TRUE) /\ xlog' = [xlog EXCEPT !.on = NewSlot]
    \/ \E s \in Sessions, ok \in BOOLEAN :
         RClone(t, s, ok) /\ xlog' = LogClone(s, NewSlot, ok)
    \/ \E s \in Sessions, q \in {0, 1} : RSetRatio(t, s, q) /\ xlog' = LogOther(s)
    \/ \E s \in Sessions : RReset(t, s) /\ xlog' = LogOther(s)
    \/ \E s \in Sessions : RDestroy(t, s) /\ xlog' = LogDestroy(s)
    \/ \E s \in Sessions, x \in CloneInputs, q \in {2}, eoi \in BOOLEAN :
         ProcessBegin(t, s, x, q, eoi) /\ xlog' = [xlog EXCEPT !.on = s]
    \/ ProcessEnd(t, "none")
         /\ xlog' = LogProcess(call[t].s, Request(call[t]), result'[t])
    \/ Resume(t) /\ xlog' = [xlog EXCEPT !.on = 0]

SpecClone == Init /\ [][NextClone]_vars

\* One thread works on CallbackSessions and their copies, with producers that
\* hand back chunks of every kind.
Chunks == {NoChunk, Raise, Junk, Arr(1, 1, 1), Arr(2, 1, 2), Arr(3, 1, 1)}

NextCb ==
  \E t \in {1} :
    \/ CConstruct(t, 1, 2, Linear, 1, TRUE) /\ UNCHANGED xlog
    \/ \E s \in Sessions : CClone(t, s, TRUE) /\ UNCHANGED xlog
    \/ \E s \in Sessions, q \in {0, 2} : CSetStartingRatio(t, s, q) /\ UNCHANGED xlog
    \/ \E s \in Sessions : CReset(t, s) /\ UNCHANGED xlog
    \/ \E s \in Sessions : CDestroy(t, s) /\ UNCHANGED xlog
    \/ \E s \in Sessions, n \in ReadFrames : ReadBegin(t, s, n, TRUE) /\ UNCHANGED xlog
    \/ ReadSteps(t, Chunks, {"none"})
    \/ BridgeFault(t) /\ UNCHANGED xlog
    \/ Resume(t) /\ UNCHANGED xlog

SpecCb == Init /\ [][NextCb]_vars

\* One input buffer, ratio and converter, drawn at the start and kept in
\* xlog.reqs, are given to resample and to process on sessions built for them;
\* xlog.ra is what resample asked of the engine and what it returned, xlog.rb
\* the same for process with end_of_input on a session not used before.
BulkArrays == {[ndim |-> 1, n |-> 0, c |-> 0], [ndim |-> 1, n |-> MaxFrames, c |-> 0],
               [ndim |-> 2, n |-> MaxFrames, c |-> 2], [ndim |-> 2, n |-> 1, c |-> 0],
               [ndim |-> 3, n |-> 1, c |-> 1]}
BulkConverters == {Linear, <<"int", 0>>, <<"enum", 2>>, <<"str", "cubic">>, <<"int", 7>>}

InitBulk ==
  /\ InitProgram
  /\ \E x \in BulkArrays, q \in Ratios, obj \in BulkConverters :
       xlog = [NoLog EXCEPT !.reqs = <<[x |-> x, q |-> q, obj |-> obj]>>]

\* what a call in flight asks of the engine
EngineRequest(c, ch) == [n |-> c.frames, cap |-> c.cap, q |-> c.ratio, ch |-> ch]

\* no process call has reached the engine state of session s yet
Fresh(s) ==
  LET h == eng[sess[s].st]
  IN h.filt = 0 /\ h.lastRatio = 0 /\ h.err = 0 /\ h.saved = 0

\* the record of a call after its first step: the request, or for a call that
\* came back at once no request and its result
Issued(c, ch, returned, res) ==
  IF returned THEN <<EngineRequest(NoCall, 0), res>> ELSE <<EngineRequest(c, ch)>>

NextBulk ==
  \E t \in {1} :
    LET in == xlog.reqs[1]
    IN \/ /\ ResampleBegin(t, in.x, in.q, in.obj)
          /\ xlog' = [xlog EXCEPT !.ra = Issued(call'[t], call'[t].ch,
                                                 pc'[t] = "returned", result'[t])]
       \/ /\ ResampleEnd(t, TRUE, "none")
          /\ xlog' = [xlog EXCEPT !.ra = Append(@, result'[t])]
       \/ RConstruct(t, in.obj, InputChannels(in.x), TRUE) /\ UNCHANGED xlog
       \/ \E s \in Sessions, eoi \in BOOLEAN :
            /\ ProcessBegin(t, s, in.x, in.q, eoi)
            /\ xlog' = [xlog EXCEPT !.rb = IF Fresh(s) /\ eoi
                                             THEN Issued(call'[t], sess[s].ch,
                                                         pc'[t] = "returned", result'[t])
                                             ELSE @]
       \/ /\ ProcessEnd(t, "none")
          /\ xlog' = [xlog EXCEPT !.rb = IF Len(@) = 1 THEN Append(@, result'[t]) ELSE @]
       \/ Resume(t) /\ UNCHANGED xlog

SpecBulk == InitBulk /\ [][NextBulk]_vars

\* ------------------------------------------------ handles and their owners
\* the sessions that hold handle h
Owners(h) == {s \in Sessions : sess[s].alive /\ sess[s].st = h}

\* C1: every engine handle that was created is held by exactly one session
\* until it is deleted, is deleted once and never twice, and is held by no
\* session afterwards; so when no session is left no handle is left either,
\* and destroying a session that holds no handle deletes nothing.
HandleReleasedOnce ==
  \A h \in Handles :
    /\ eng[h].dels <= 1
    /\ eng[h].status = "live" => eng[h].dels = 0 /\ Cardinality(Owners(h)) = 1
    /\ eng[h].status = "deleted" => eng[h].dels = 1 /\ Owners(h) = {}
    /\ eng[h].status = "unused" => eng[h].dels = 0 /\ Owners(h) = {}

\* every handle was created and deleted, and every session is gone
AllHandlesReleased ==
  /\ \A s \in Sessions : ~sess[s].alive
  /\ \A h \in Handles : eng[h].status = "deleted" /\ eng[h].dels = 1

\* ------------------------------------------------ copies of a session
\* the IncrementalSessions that exist
IncSessions == {s \in Sessions : sess[s].alive /\ sess[s].kind = "inc"}

\* C2: two IncrementalSessions never hold the same handle (a copy has a handle
\* of its own), and a call on one session leaves every other session, its
\* handle and the engine state behind it as they were.
CloneFrameStep ==
  \A a, b \in IncSessions :
    a # b => /\ sess[a].st # 0 /\ sess[a].st # sess[b].st
             /\ b # xlog'.on => /\ sess'[b] = sess[b]
                                /\ eng'[sess[b].st] = eng[sess[b].st]

\* C2, of every step: copies hold handles of their own and a call on one
\* session changes no other session
CloneIsIndependent == [][CloneFrameStep]_vars

\* a session and its copy, each with a live handle of its own, after calls
\* that took their engine states apart
CloneWentItsOwnWay ==
  /\ xlog.orig # 0 /\ {xlog.orig, xlog.copy} \subseteq IncSessions
  /\ eng[sess[xlog.orig].st].status = "live" /\ eng[sess[xlog.copy].st].status = "live"
  /\ eng[sess[xlog.orig].st].filt # eng[sess[xlog.copy].st].filt
  /\ eng[sess[xlog.orig].st].lastRatio # eng[sess[xlog.copy].st].lastRatio

\* C3: a session copied in mid-stream and its copy, asked the same sequence
\* of process requests after the copy was made, give the same sequence of
\* results.
CloneAnswersAlike ==
  xlog.same =>
    \A i \in 1 .. Min(Len(xlog.ra), Len(xlog.rb)) : xlog.ra[i] = xlog.rb[i]

\* the copy was made with a frame held in the engine; both sessions then got
\* the same MaxLog requests and gave the same results, the first of which
\* carries the frame held at the time of the copy
CloneAnsweredMidStream ==
  /\ xlog.same /\ Len(xlog.ra) = MaxLog /\ Len(xlog.rb) = MaxLog
  /\ xlog.ra[1].st = "ok" /\ xlog.ra[1].gen > xlog.reqs[1].n

\* ------------------------------------------------ the two entry points
\* C4: for one input buffer, ratio and converter, resample and process with
\* end_of_input on a session just built for the same converter and channel
\* count ask the same of the engine (frames, planned capacity, ratio,
\* channels) and return the same result (status, frames, rank).
BulkAgreesWithFreshSession ==
  \A i \in 1 .. Min(Len(xlog.ra), Len(xlog.rb)) : xlog.ra[i] = xlog.rb[i]

\* both calls were made on a two-channel buffer and both returned frames
BulkAndSessionConverted ==
  /\ Len(xlog.ra) = 2 /\ Len(xlog.rb) = 2
  /\ xlog.ra[2].st = "ok" /\ xlog.ra[2].gen > 0 /\ xlog.ra[2].rank = 2
  /\ xlog.rb[2].st = "ok"

\* ------------------------------------------------ the lock
\* C5: while a producer function runs, its thread holds the lock; two
\* producers never run at the same time.
ProducerHoldsLock ==
  /\ \A t \in Threads : pc[t] = "producer" => gil = t
  /\ \A t1, t2 \in Threads : pc[t1] = "producer" /\ pc[t2] = "producer" => t1 = t2

\* one thread runs its producer while the read of another session, on the
\* other thread, waits for the lock to run its own
ProducerWhileOtherWaits ==
  /\ pc[1] = "producer" /\ gil = 1
  /\ pc[2] = "bridge_acq" /\ call[2].s # call[1].s

\* the positions of a thread inside the engine's conversion call, outside a
\* producer invocation
InEngine == {"bulk_engine", "proc_engine", "read_engine", "bridge_acq", "bridge_post",
             "read_exit", "unwind"}

CallerHoldsLockOnReturn == \A t \in Threads : pc[t] = "returned" => gil = t

\* a read comes back with the deferred callback error while the other thread
\* is inside the engine
ReadFailedUnderLock ==
  /\ pc[1] = "returned" /\ result[1].st = "CallbackError" /\ gil = 1
  /\ pc[2] \in InEngine

\* C8: a producer is invoked only from the read in flight on its own thread,
\* after that read gave up the lock for the engine call, and it hands back
\* to that engine call; nothing invokes a producer while no read is in flight.
ProducerStep ==
  \A t \in Threads :
    /\ pc[t] = "producer" => call[t].op = "read"
    /\ (pc'[t] = "producer" /\ pc[t] # "producer")
         => pc[t] = "bridge_acq" /\ gil # t /\ call[t].op = "read" /\ call'[t] = call[t]
    /\ (pc[t] = "producer" /\ pc'[t] # "producer")
         => pc'[t] \in {"bridge_post", "unwind"} /\ call'[t].op = "read"
    /\ pcalls' # pcalls => \E u \in Threads : pc[u] = "producer" /\ gil = u

\* C8, of every step: producers are invoked only from inside the read in
\* flight on their own thread
ProducerOnlyInsideRead == [][ProducerStep]_vars

\* a producer has been invoked and has handed its chunk to the engine call of
\* the read on thread 1, while thread 2 has no call in flight
ProducerReturnedToEngine ==
  /\ pc[1] = "bridge_post" /\ call[1].op = "read" /\ call[1].chunk.k = "arr"
  /\ pcalls[1] >= 1 /\ pc[2] = "py"

\* ------------------------------------------------ errors of the producer
\* C9: a read during which the producer handed back a chunk whose channel
\* count is not the session's ends with the callback error, never with a
\* result.
MismatchStep ==
  \A t \in Threads :
    (pc[t] = "read_exit" /\ pc'[t] = "returned" /\ call[t].bad)
      => result'[t].st = "CallbackError"

\* C9, of every step that ends a read: after a chunk with the wrong channel
\* count the read ends with the callback error
MismatchFailsRead == [][MismatchStep]_vars

\* C10: a failure inside the bridge (the producer raising, or handing back
\* what is no array and not None) never leaves as an exception through the
\* engine's frame, and never reaches read's caller that way.
FailureIsDeferred ==
  \A t \in Threads :
    /\ pc[t] # "unwind"
    /\ pc[t] = "returned" => result[t].st # "ProducerException"

\* ------------------------------------------------ the end of the stream
\* One session reads a producer to its end.  The producer's script is drawn at
\* the start: xlog.script is the chunks it still has to hand back (None on
\* every later invocation), xlog.total their number at the start, xlog.short
\* says that a read came back with fewer frames than asked for, xlog.zeros
\* counts the reads that came back with no frame (up to 2).
ValidChunks == {Arr(1, 1, 1), Arr(1, MaxFrames, 1), Arr(2, 1, 1)}

Scripts == UNION {[1 .. n -> ValidChunks] : n \in 0 .. MaxProducerCalls}

InitDrain ==
  /\ InitProgram
  /\ \E sc \in Scripts :
       xlog = [script |-> sc, total |-> Len(sc), short |-> FALSE, zeros |-> 0]

LogRead(c, res) ==
  [xlog EXCEPT !.short = @ \/ (res.st = "ok" /\ res.gen < c.frames),
               !.zeros = IF res.st = "ok" /\ res.gen = 0 THEN Min(@ + 1, 2) ELSE @]

NextDrain ==
  \E t \in {1} :
    \/ /\ \A s \in Sessions : ~sess[s].alive
       /\ \E q \in Ratios \ {0} : CConstruct(t, 1, q, Linear, 1, TRUE)
       /\ UNCHANGED xlog
    \/ \E s \in Sessions, k \in 1 .. MaxFrames : ReadBegin(t, s, k, TRUE) /\ UNCHANGED xlog
    \/ EngineStep(t, "none") /\ UNCHANGED xlog
    \/ BridgeAcquire(t) /\ UNCHANGED xlog
    \/ /\ Producer(t, IF xlog.script = <<>> THEN NoChunk ELSE Head(xlog.script))
       /\ xlog' = [xlog EXCEPT !.script = IF @ = <<>> THEN @ ELSE Tail(@)]
    \/ BridgePost(t, "none") /\ UNCHANGED xlog
    \/ ReadEnd(t) /\ xlog' = LogRead(call[t], result'[t])
    \/ Resume(t) /\ UNCHANGED xlog

\* the caller goes on reading, and every call in flight runs on
SpecDrain == InitDrain /\ [][NextDrain]_vars /\ WF_vars(NextDrain)

\* C11: a read that ends after a read came back with no frame comes back with
\* no frame and no error
AfterZeroStep ==
  \A t \in Threads :
    (pc[t] = "read_exit" /\ pc'[t] = "returned" /\ xlog.zeros >= 1)
      => result'[t].st = "ok" /\ result'[t].gen = 0

\* C11: with a producer that hands back its chunks of valid frames and then
\* None on every later invocation, repeated reads of k > 0 frames come to a
\* read that returns fewer than k frames and no error, and every read after
\* the first one that returned no frame returns no frame and no error.
StreamEnds == <>(xlog.short) /\ [][AfterZeroStep]_vars

\* a producer that had chunks to hand back is at its end, and the second read
\* in a row has come back with no frame
ReadAgainAfterEnd ==
  /\ xlog.total >= 1 /\ xlog.script = <<>> /\ xlog.zeros = 2
  /\ pc[1] = "returned" /\ result[1].st = "ok" /\ result[1].gen = 0

\* ------------------------------------------------ the scope of a session
\* One thread builds a CallbackSession, leaves its scope (__exit__) and reads
\* from it, open or closed.  xlog is what the call last begun found: op the
\* call, s its session, frames the frame count asked of a read, sess0 the
\* session object, eng0 the engine's handles and calls0 the producers'
\* invocation counts, all as they were when the call began.
NoScope == [op |-> "none", s |-> 0, frames |-> 0, sess0 |-> NoSession,
            eng0 |-> [h \in Handles |-> NoHandle], calls0 |-> [f \in Fns |-> 0]]

Begun(op, s, frames) ==
  [op |-> op, s |-> s, frames |-> frames, sess0 |-> sess[s], eng0 |-> eng,
   calls0 |-> pcalls]

InitScope == InitProgram /\ xlog = NoScope

ScopeConverters == {Linear, <<"int", 0>>}
ScopeChunks == {NoChunk, Arr(1, 1, 1), Arr(2, 1, 2)}

NextScope ==
  \E t \in {1} :
    \/ /\ \A s \in Sessions : ~sess[s].alive
       /\ \E q \in {0, 2}, obj \in ScopeConverters, ch \in {1, 2} :
            CConstruct(t, 1, q, obj, ch, TRUE) /\ xlog' = Begun("construct", NewSlot, 0)
    \/ \E s \in Sessions : CExit(t, s) /\ xlog' = Begun("exit", s, 0)
    \/ \E s \in Sessions, n \in ReadFrames, ok \in BOOLEAN :
         ReadBegin(t, s, n, ok) /\ xlog' = Begun("read", s, n)
    \/ EngineStep(t, "none") /\ UNCHANGED xlog
    \/ BridgeAcquire(t) /\ UNCHANGED xlog
    \/ \E ch \in ScopeChunks : Producer(t, ch) /\ UNCHANGED xlog
    \/ BridgePost(t, "none") /\ UNCHANGED xlog
    \/ ReadEnd(t) /\ UNCHANGED xlog
    \/ Resume(t) /\ xlog' = NoScope

SpecScope == InitScope /\ [][NextScope]_vars

\* C12: when __exit__ has returned the session holds no handle; the handle it
\* held when the call began, if any, has been deleted, once, and nothing else
\* of the session or of the engine has changed; __exit__ on a session that
\* held no handle deletes nothing.
ExitCloses ==
  (xlog.op = "exit" /\ pc[1] = "returned") =>
    LET s == xlog.s
        h == xlog.sess0.st
    IN /\ result[1].st = "ok"
       /\ sess[s] = [xlog.sess0 EXCEPT !.st = 0]
       /\ eng = IF h = 0 THEN xlog.eng0
                ELSE [xlog.eng0 EXCEPT ![h] = [NoHandle EXCEPT !.status = "deleted",
                                                             !.dels = 1]]

\* __exit__ has returned on a session that was closed already, after the
\* handle it once held was deleted
ExitedAgain ==
  /\ xlog.op = "exit" /\ pc[1] = "returned"
  /\ xlog.sess0.alive /\ xlog.sess0.st = 0
  /\ \E h \in Handles : eng[h].status = "deleted"

\* the steps of a read between its engine call and its return
InRead == {"read_engine", "bridge_acq", "producer", "bridge_post", "read_exit"}

\* the handles made since the call last begun
Created == {h \in Handles : xlog.eng0[h].status = "unused" /\ eng[h].status # "unused"}

\* C13: while the engine call of a read runs the session holds a live
\* callback-mode handle made for the session's converter and channel count,
\* and for a session that was closed when the read began this handle is a new
\* one; when such a read has returned, either no handle could be made, the
\* read has failed and the session is closed as before, or the session holds
\* the new handle.
ReadReopens ==
  /\ pc[1] \in InRead =>
       LET r == sess[call[1].s]
       IN /\ r.st # 0 /\ eng[r.st].status = "live" /\ eng[r.st].mode = "callback"
          /\ eng[r.st].conv = r.conv /\ eng[r.st].ch = r.ch
          /\ xlog.sess0.st = 0 => Created = {r.st}
          /\ xlog.sess0.st # 0 => r.st = xlog.sess0.st /\ Created = {}
  /\ (xlog.op = "read" /\ pc[1] = "returned" /\ xlog.sess0.st = 0) =>
       LET r == sess[xlog.s]
       IN IF Created = {}
          THEN r = xlog.sess0 /\ eng = xlog.eng0 /\ result[1].st = "ConversionFailed"
          ELSE Created = {r.st} /\ eng[r.st].status = "live"
               /\ eng[r.st].conv = r.conv /\ eng[r.st].ch = r.ch

\* the engine call of a read runs on a session of two channels that was closed
\* when the read began
ClosedSessionReads ==
  /\ pc[1] = "read_engine" /\ xlog.op = "read"
  /\ xlog.sess0.alive /\ xlog.sess0.st = 0 /\ xlog.sess0.ch = 2
  /\ sess[xlog.s].st # 0

\* ------------------------------------------------ the error translator
\* src_strerror: the engine's text for a status.  The engine has a text for
\* its statuses 0 .. 22 and a placeholder for SRC_ERR_MAX_ERROR; for any other
\* number it has none and hands back a null pointer.
SRC_ERR_MAX_ERROR == 23

src_strerror(errnum) ==
  IF errnum >= 0 /\ errnum < SRC_ERR_MAX_ERROR THEN <<"text", errnum>>
  ELSE IF errnum = SRC_ERR_MAX_ERROR THEN <<"placeholder", errnum>>
  ELSE <<"null", 0>>

\* what error_handler throws for a status: the kind of the exception, and for
\* a ResamplingException the message its constructor takes from src_strerror
NoThrow == [kind |-> "none", queried |-> FALSE, message |-> <<"", 0>>]

error_thrown(errnum) ==
  IF error_handler(errnum) = "ConversionFailed"
  THEN [kind |-> "ConversionFailed", queried |-> TRUE, message |-> src_strerror(errnum)]
  ELSE [NoThrow EXCEPT !.kind = error_handler(errnum)]

\* A status is drawn and given to error_handler: xlog.errnum is the status,
\* xlog.thrown what was thrown, xlog.done says that the call was made.
MaxCode == 40
Codes == (0 - MaxCode) .. MaxCode

InitTranslate ==
  /\ InitProgram
  /\ \E c \in Codes : xlog = [errnum |-> c, thrown |-> NoThrow, done |-> FALSE]

NextTranslate ==
  /\ ~xlog.done
  /\ xlog' = [xlog EXCEPT !.thrown = error_thrown(xlog.errnum), !.done = TRUE]
  /\ UNCHANGED <<sess, eng, gil, pc, call, result, pcalls, crashed>>

SpecTranslate == InitTranslate /\ [][NextTranslate]_vars

\* C14: the translator throws nothing for status 0, ConversionFailed with the
\* engine's text exactly for the statuses 1 .. 22, and the fatal error, without
\* asking the engine for a text, for every other status.
TranslatorRange ==
  xlog.done =>
    LET c == xlog.errnum
        known == c >= 1 /\ c <= SRC_ERR_BAD_INTERNAL_STATE
    IN /\ c = 0 => xlog.thrown = NoThrow
       /\ known => /\ xlog.thrown.kind = "ConversionFailed"
                   /\ xlog.thrown.message = <<"text", c>>
       /\ (c # 0 /\ ~known) => xlog.thrown.kind = "Fatal" /\ ~xlog.thrown.queried

\* ------------------------------------------------ the converter selector
\* A selector is drawn and given to get_converter_type: xlog.obj is the
\* selector, xlog.out what came back (an integer, or "InvalidConverter" for
\* the domain_error), xlog.done says that the call was made.
MaxSelector == 24
Selectors ==
  {<<"str", ConverterNames[i]>> : i \in 1 .. Len(ConverterNames)}
    \cup {<<"str", "cubic">>, <<"str", "">>, <<"other", 0>>}
    \cup {<<"enum", i>> : i \in 0 .. 4}
    \cup {<<"int", n>> : n \in (0 - MaxSelector) .. MaxSelector}

NoOutcome == [kind |-> "none", value |-> 0]

converter_outcome(obj) ==
  IF get_converter_type_throws(obj) THEN [kind |-> "InvalidConverter", value |-> 0]
  ELSE [kind |-> "int", value |-> get_converter_type(obj)]

InitSelect ==
  /\ InitProgram
  /\ \E obj \in Selectors : xlog = [obj |-> obj, out |-> NoOutcome, done |-> FALSE]

NextSelect ==
  /\ ~xlog.done
  /\ xlog' = [xlog EXCEPT !.out = converter_outcome(xlog.obj), !.done = TRUE]
  /\ UNCHANGED <<sess, eng, gil, pc, call, result, pcalls, crashed>>

SpecSelect == InitSelect /\ [][NextSelect]_vars

\* C15: for every selector the function returns an integer from 0 to 4 (the
\* position of a name in sinc_best, sinc_medium, sinc_fastest,
\* zero_order_hold, linear; the ordinal of an enumerated value) or fails with
\* InvalidConverter; it never returns an integer outside 0 .. 4, and no
\* session and no handle is touched.
SelectorInRange ==
  xlog.done =>
    /\ xlog.out.kind \in {"int", "InvalidConverter"}
    /\ xlog.out.kind = "int" => xlog.out.value \in 0 .. 4
    /\ \A i \in 1 .. Len(ConverterNames) :
         xlog.obj = <<"str", ConverterNames[i]>> => xlog.out = [kind |-> "int", value |-> i - 1]
    /\ xlog.obj[1] = "enum" => xlog.out = [kind |-> "int", value |-> xlog.obj[2]]
    /\ sess = [s \in Sessions |-> NoSession] /\ eng = [h \in Handles |-> NoHandle]

\* C15, with integers handed back as they are: the five names give their
\* position 0 .. 4, an enumerated value its ordinal, an integer itself
\* whatever its value, every other name and every value of another type the
\* InvalidConverter failure; a result outside 0 .. 4 comes from an integer
\* selector only, and no session and no handle is touched.
SelectorOutcome ==
  xlog.done =>
    /\ xlog.out.kind \in {"int", "InvalidConverter"}
    /\ \A i \in 1 .. Len(ConverterNames) :
         xlog.obj = <<"str", ConverterNames[i]>> => xlog.out = [kind |-> "int", value |-> i - 1]
    /\ xlog.obj[1] = "enum" => xlog.out = [kind |-> "int", value |-> xlog.obj[2]]
    /\ xlog.obj[1] = "int" => xlog.out = [kind |-> "int", value |-> xlog.obj[2]]
    /\ (xlog.out.kind = "int" /\ xlog.out.value \notin 0 .. 4) => xlog.obj[1] = "int"
    /\ xlog.out.kind = "InvalidConverter" <=>
         \/ xlog.obj[1] = "other"
         \/ xlog.obj[1] = "str" /\ \A i \in 1 .. Len(ConverterNames) :
                                      ConverterNames[i] # xlog.obj[2]
    /\ sess = [s \in Sessions |-> NoSession] /\ eng = [h \in Handles |-> NoHandle]

\* the selector was given an integer that names no converter and handed it
\* back
UnknownIntegerReturned ==
  xlog.done /\ xlog.obj[1] = "int" /\ xlog.obj[2] > 4 /\ xlog.out.kind = "int"

\* ------------------------------------------------ the shape of the input
\* One thread gives arrays of every shape to resample and to process on
\* sessions of one and two channels.  xlog is what the call last begun was
\* given and found: op the call, s its session (0 for resample), x the array,
\* obj the converter selector (resample), sess0 and eng0 the sessions and the
\* engine's handles as they were when the call began.
ShapeArrays == {[ndim |-> 1, n |-> 1, c |-> 0], [ndim |-> 2, n |-> 1, c |-> 1],
                [ndim |-> 2, n |-> MaxFrames, c |-> 2], [ndim |-> 2, n |-> 1, c |-> 0],
                [ndim |-> 3, n |-> 1, c |-> 1]}
ShapeConverters == {Linear, <<"str", "cubic">>}

NoShape == [op |-> "none", s |-> 0, x |-> Mono, obj |-> Linear,
            sess0 |-> [s \in Sessions |-> NoSession],
            eng0 |-> [h \in Handles |-> NoHandle]]

Given(op, s, x, obj) ==
  [op |-> op, s |-> s, x |-> x, obj |-> obj, sess0 |-> sess, eng0 |-> eng]

InitShape == InitProgram /\ xlog = NoShape

NextShape ==
  \E t \in {1} :
    \/ \E ch \in {1, 2} : RConstruct(t, Linear, ch, TRUE) /\ xlog' = NoShape
    \/ \E s \in Sessions, x \in ShapeArrays, eoi \in BOOLEAN :
         ProcessBegin(t, s, x, 2, eoi) /\ xlog' = Given("process", s, x, Linear)
    \/ ProcessEnd(t, "none") /\ UNCHANGED xlog
    \/ \E x \in ShapeArrays, obj \in ShapeConverters :
         ResampleBegin(t, x, 2, obj) /\ xlog' = Given("resample", 0, x, obj)
    \/ ResampleEnd(t, TRUE, "none") /\ UNCHANGED xlog
    \/ Resume(t) /\ xlog' = NoShape

SpecShape == InitShape /\ [][NextShape]_vars

\* the request last begun has an array of rank above 2, of no channel, or (for
\* process) of a channel count that is not the session's
BadShape ==
  LET x == xlog.x
      channels == IF x.ndim = 2 THEN x.c ELSE 1
  IN /\ xlog.op \in {"process", "resample"}
     /\ \/ x.ndim > 2
        \/ channels = 0
        \/ xlog.op = "process" /\ channels # xlog.sess0[xlog.s].ch

\* the output buffer of the call in flight is allocated and its engine call
\* is the next thing to run, or has run
Allocated == pc[1] \in {"proc_engine", "bulk_engine"} \/ call[1].cap > 0

\* C16 as stated, for every selector: a request with a bad shape never gets
\* as far as the output buffer or the engine, fails with InvalidShape, and
\* leaves every session and every handle as it was.
BadShapeRefused ==
  BadShape =>
    /\ ~Allocated
    /\ pc[1] = "returned" /\ result[1].st = "InvalidShape"
    /\ sess = xlog.sess0 /\ eng = xlog.eng0

\* C16, for requests whose converter selector is accepted (resample looks at
\* the selector before it looks at the shape): a request with a bad shape
\* never gets as far as the output buffer or the engine, fails with
\* InvalidShape, and leaves every session and every handle as it was.
BadShapeRefusedFirst ==
  (BadShape /\ ~get_converter_type_throws(xlog.obj)) =>
    /\ ~Allocated
    /\ pc[1] = "returned" /\ result[1].st = "InvalidShape"
    /\ sess = xlog.sess0 /\ eng = xlog.eng0

\* process has refused an array of two channels on a session of one channel
\* that had converted input before
MismatchRefused ==
  /\ BadShape /\ xlog.op = "process" /\ xlog.x.ndim = 2 /\ xlog.x.c = 2
  /\ pc[1] = "returned" /\ result[1].st = "InvalidShape"
  /\ eng[xlog.sess0[xlog.s].st].lastRatio # 0

\* ------------------------------------------------ an engine that misreports
\* One thread makes the three kinds of conversion calls on an engine that may
\* report a frame count that is too large or negative.  xlog is the call last
\* begun: op the call, cap the capacity in frames of the buffer allocated for
\* it, reported the frame count the engine handed back, ended whether the
\* engine call is over.
NoCount == [op |-> "none", cap |-> 0, reported |-> 0, ended |-> FALSE]

Counted(op, cap) == [op |-> op, cap |-> cap, reported |-> 0, ended |-> FALSE]

InitCount == InitProgram /\ xlog = NoCount

NextCount ==
  \E t \in {1} :
    \/ RConstruct(t, Linear, 1, TRUE) /\ xlog' = NoCount
    \/ \E s \in Sessions, x \in CloneInputs, eoi \in BOOLEAN :
         ProcessBegin(t, s, x, 2, eoi) /\ xlog' = Counted("process", call'[t].cap)
    \/ \E f \in Faults :
         /\ ProcessEnd(t, f)
         /\ LET c == call[t]
            IN xlog' = [xlog EXCEPT !.ended = TRUE, !.reported =
                          src_process(eng, sess[c.s].st, c.frames, c.cap, c.ratio,
                                      c.eoi, f).gen]
    \/ \E x \in CloneInputs :
         ResampleBegin(t, x, 2, Linear) /\ xlog' = Counted("resample", call'[t].cap)
    \/ \E f \in Faults :
         /\ ResampleEnd(t, TRUE, f)
         /\ LET c == call[t]
            IN xlog' = [xlog EXCEPT !.ended = TRUE, !.reported =
                          src_simple(c.conv, c.ch, c.frames, c.cap, c.ratio, TRUE, f).gen]
    \/ CConstruct(t, 1, 2, Linear, 1, TRUE) /\ xlog' = NoCount
    \/ \E s \in Sessions, n \in ReadFrames :
         ReadBegin(t, s, n, TRUE) /\ xlog' = Counted("read", n)
    \/ \E f \in {"none", "over"} : EngineStep(t, f) /\ UNCHANGED xlog
    \/ BridgeAcquire(t) /\ UNCHANGED xlog
    \/ \E ch \in {NoChunk, Arr(1, 1, 1), Arr(1, MaxFrames, 1)} :
         Producer(t, ch) /\ UNCHANGED xlog
    \/ \E f \in {"none", "over"} : BridgePost(t, f) /\ UNCHANGED xlog
    \/ ReadEnd(t) /\ xlog' = [xlog EXCEPT !.ended = TRUE, !.reported = call[t].gen]
    \/ Resume(t) /\ xlog' = NoCount

SpecCount == InitCount /\ [][NextCount]_vars

\* C17: a result handed back by resample, process or read never has more
\* frames than the buffer allocated for it holds; when the engine reports more
\* frames than that, or a negative number, the call fails with the fatal
\* error.
ResultFitsBuffer ==
  (pc[1] = "returned" /\ xlog.ended) =>
    /\ result[1].st = "ok" => result[1].gen >= 0 /\ result[1].gen <= xlog.cap
    /\ (xlog.reported > xlog.cap \/ xlog.reported < 0) => result[1].st = "Fatal"

\* ------------------------------------------------ the buffer planner
\* A frame count and a ratio (q / RatioDen) are drawn and given to the
\* planning lines of resample and of process: xlog.n and xlog.q are the two,
\* xlog.bulk and xlog.inc the capacities planned, xlog.done says that the
\* plans were made.
MaxPlanFrames == 12
MaxPlanRatio == 8

InitPlan ==
  /\ InitProgram
  /\ \E n \in 0 .. MaxPlanFrames, q \in 1 .. MaxPlanRatio :
       xlog = [n |-> n, q |-> q, bulk |-> 0, inc |-> 0, done |-> FALSE]

NextPlan ==
  /\ ~xlog.done
  /\ xlog' = [xlog EXCEPT !.bulk = resample_new_size(xlog.n, xlog.q),
                          !.inc = process_new_size(xlog.n, xlog.q),
                          !.done = TRUE]
  /\ UNCHANGED <<sess, eng, gil, pc, call, result, pcalls, crashed>>

SpecPlan == InitPlan /\ [][NextPlan]_vars

\* the least integer that is not below n * q / RatioDen
Ceiling(n, q) ==
  CHOOSE m \in 0 .. n * q : m * RatioDen >= n * q /\ (m - 1) * RatioDen < n * q

\* C18: for every frame count from 0 up and every ratio above 0 the capacity
\* planned by resample and the capacity planned by process are both the
\* ceiling of frame count times ratio plus 10000 frames: at least that
\* ceiling, 10000 for no frames, and the same in both.
PlannedCapacity ==
  xlog.done =>
    /\ xlog.bulk = Ceiling(xlog.n, xlog.q) + 10000
    /\ xlog.inc = Ceiling(xlog.n, xlog.q) + 10000
    /\ xlog.bulk >= Ceiling(xlog.n, xlog.q) /\ xlog.inc >= Ceiling(xlog.n, xlog.q)
    /\ xlog.n = 0 => xlog.bulk = 10000 /\ xlog.inc = 10000
    /\ xlog.bulk = xlog.inc

\* capacities were planned for a frame count and a ratio whose product is no
\* whole number
PlannedForFraction ==
  xlog.done /\ xlog.n > 0 /\ (xlog.n * xlog.q) % RatioDen # 0 /\ xlog.inc > 10000

\* C19: a read of 0 frames never reaches the producer, and when it has
\* returned it has handed back an empty result and no error, and the
\* session's handle, its ratio and the engine's handles are as they were
\* when the call began.
ReadNothingIsIdle ==
  (xlog.op = "read" /\ xlog.frames = 0) =>
    /\ pcalls = xlog.calls0
    /\ pc[1] \notin {"bridge_acq", "producer", "bridge_post"}
    /\ pc[1] = "returned" =>
         /\ result[1].st = "ok" /\ result[1].gen = 0
         /\ sess[xlog.s].st = xlog.sess0.st
         /\ sess[xlog.s].ratio = xlog.sess0.ratio
         /\ eng = xlog.eng0

\* ------------------------------------------------ the rank of a read's result
\* One thread builds CallbackSessions of one and two channels, copies them,
\* closes them and reads from them one frame at a time, with producers that
\* hand back chunks of every rank.  xlog.first is, for every session object,
\* the rank of the first chunk of rank above 0 that its callback() got (0:
\* none so far); xlog.s is the session of the read that ended last.
RankChunks == {NoChunk, Arr(1, 1, 1), Arr(2, 1, 1), Arr(2, 1, 2), Arr(3, 1, 1)}

InitRank == InitProgram /\ xlog = [first |-> [s \in Sessions |-> 0], s |-> 0]

GotChunk(cb, chunk) ==
  IF chunk.k = "arr" /\ chunk.ndim > 0 /\ xlog.first[cb] = 0
  THEN [xlog EXCEPT !.first[cb] = chunk.ndim]
  ELSE xlog

NextRank ==
  \E t \in {1} :
    \/ \E ch \in {1, 2} : CConstruct(t, 1, 2, Linear, ch, TRUE) /\ UNCHANGED xlog
    \/ \E s \in Sessions : CClone(t, s, TRUE) /\ UNCHANGED xlog
    \/ \E s \in Sessions : CExit(t, s) /\ UNCHANGED xlog
    \/ \E s \in Sessions : ReadBegin(t, s, 1, TRUE) /\ UNCHANGED xlog
    \/ EngineStep(t, "none") /\ UNCHANGED xlog
    \/ BridgeAcquire(t) /\ UNCHANGED xlog
    \/ \E ch \in RankChunks : Producer(t, ch) /\ xlog' = GotChunk(call[t].cb, ch)
    \/ BridgePost(t, "none") /\ UNCHANGED xlog
    \/ ReadEnd(t) /\ xlog' = [xlog EXCEPT !.s = call[t].s]
    \/ Resume(t) /\ UNCHANGED xlog

SpecRank == InitRank /\ [][NextRank]_vars

\* C20: a read that ends with a result hands back an array of rank 1 when the
\* session has one channel and the last chunk the session got from its
\* producer was of rank 1, and of rank 2 in every other case.
RankStep ==
  \A t \in Threads :
    (pc[t] = "read_exit" /\ pc'[t] = "returned" /\ result'[t].st = "ok")
      => LET r == sess[call[t].s]
         IN result'[t].rank = IF r.ch = 1 /\ r.cur.k = "arr" /\ r.cur.ndim = 1
                              THEN 1 ELSE 2

\* C20, of every step that ends a read
RankFollowsLastChunk == [][RankStep]_vars

\* C20, with the first chunk in the place of the last: a read that ends with
\* a result hands back an array of rank 1 when the session has one channel
\* and the first chunk of rank above 0 that the session object got from its
\* producer was of rank 1, and of rank 2 in every other case.
RankFirstStep ==
  \A t \in Threads :
    (pc[t] = "read_exit" /\ pc'[t] = "returned" /\ result'[t].st = "ok")
      => result'[t].rank = IF sess[call[t].s].ch = 1 /\ xlog.first[call[t].s] = 1
                           THEN 1 ELSE 2

\* C20 as amended, of every step that ends a read
RankFollowsFirstChunk == [][RankFirstStep]_vars

\* a read has handed back frames in an array of rank 1 on a session whose
\* last chunk was of rank 2
RankKeptAfterOtherChunk ==
  /\ pc[1] = "returned" /\ result[1].st = "ok" /\ result[1].rank = 1 /\ result[1].gen > 0
  /\ xlog.s # 0 /\ sess[xlog.s].cur.ndim = 2

\* ------------------------------------------------ the rank a session records
\* One thread builds a CallbackSession, copies it, resets it, closes it and
\* reads from it, with a producer that hands back None, arrays without frames
\* and arrays of rank 1 and 2.  For every session object, xlog.first is the
\* rank of the first chunk of rank above 0 that its callback() got, xlog.seen
\* the rank of the first such chunk that had frames (0: none so far), and
\* xlog.after what happened to the object since xlog.first was set.
StickyChunks == {NoChunk, Arr(1, 0, 1), Arr(1, 1, 1), Arr(2, 1, 1)}

InitSticky ==
  /\ InitProgram
  /\ xlog = [first |-> [s \in Sessions |-> 0], seen |-> [s \in Sessions |-> 0],
             after |-> [s \in Sessions |-> {}]]

Happened(s, what) ==
  IF xlog.first[s] # 0 THEN [xlog EXCEPT !.after[s] = @ \cup {what}] ELSE xlog

Noted(cb, chunk) ==
  IF chunk.k # "arr" \/ chunk.ndim = 0 THEN xlog
  ELSE [Happened(cb, "chunk") EXCEPT
          !.first[cb] = IF @ = 0 THEN chunk.ndim ELSE @,
          !.seen[cb] = IF @ = 0 /\ chunk.n > 0 THEN chunk.ndim ELSE @]

NextSticky ==
  \E t \in {1} :
    \/ /\ \A s \in Sessions : ~sess[s].alive
       /\ CConstruct(t, 1, 2, Linear, 1, TRUE) /\ UNCHANGED xlog
    \/ \E s \in Sessions : CClone(t, s, TRUE) /\ UNCHANGED xlog
    \/ \E s \in Sessions : CReset(t, s) /\ xlog' = Happened(s, "reset")
    \/ \E s \in Sessions : CExit(t, s) /\ xlog' = Happened(s, "exit")
    \/ \E s \in Sessions :
         /\ ReadBegin(t, s, 1, TRUE)
         /\ xlog' = IF sess[s].st = 0 THEN Happened(s, "reopen") ELSE xlog
    \/ EngineStep(t, "none") /\ UNCHANGED xlog
    \/ BridgeAcquire(t) /\ UNCHANGED xlog
    \/ \E ch \in StickyChunks : Producer(t, ch) /\ xlog' = Noted(call[t].cb, ch)
    \/ BridgePost(t, "none") /\ UNCHANGED xlog
    \/ ReadEnd(t) /\ UNCHANGED xlog
    \/ Resume(t) /\ UNCHANGED xlog

SpecSticky == InitSticky /\ [][NextSticky]_vars

\* the rank recorded by a session object is never changed once it is set
RankKeptStep ==
  \A s \in Sessions :
    (sess[s].alive /\ sess[s].ndim # 0) => sess'[s].alive /\ sess'[s].ndim = sess[s].ndim

\* C21: the rank a session records is the rank of the first chunk with frames
\* that it got from its producer (None and an array without frames do not set
\* it), and once set it is never changed, whatever chunks, reset, exit or
\* reopening follow.
RankSetByFirstFramesStep ==
  /\ RankKeptStep
  /\ \A s \in Sessions : sess'[s].alive => sess'[s].ndim = xlog'.seen[s]

\* C21, of every step
RankSetByFirstFrames == [][RankSetByFirstFramesStep]_vars

\* C21, with the rank set by the first array of rank above 0, with or without
\* frames: the rank a session object records is the rank of the first array
\* of rank above 0 that its callback() got from the producer (None does not
\* set it), and once set it is never changed, whatever chunks, reset, exit or
\* reopening follow.
RankSetByFirstArrayStep ==
  /\ RankKeptStep
  /\ \A s \in Sessions : sess'[s].alive => sess'[s].ndim = xlog'.first[s]

\* C21 as amended, of every step
RankSetByFirstArray == [][RankSetByFirstArrayStep]_vars

\* a session's rank was set to 1 by an array without frames; the session was
\* then reset, closed and reopened by a read, and got an array of rank 2 with
\* a frame, and the rank it records is still 1
RankSurvivedEverything ==
  \E s \in Sessions :
    /\ sess[s].alive /\ sess[s].ndim = 1 /\ xlog.seen[s] = 2 /\ sess[s].cur.ndim = 2
    /\ xlog.after[s] = {"chunk", "reset", "exit", "reopen"}

\* ------------------------------------------------ the shape of the result
\* C22: every result of resample and of process has the rank of the input
\* array: for an input of rank 1 an array of rank 1 whose length is the
\* number of frames generated, for an input of rank 2 with c channels an
\* array of shape (frames generated, c), for one channel as for more.
ResultShapedAsInput ==
  (xlog.op \in {"process", "resample"} /\ pc[1] = "returned" /\ result[1].st = "ok") =>
    /\ result[1].rank = xlog.x.ndim
    /\ xlog.x.ndim = 1 => result[1].shape = <<result[1].gen>>
    /\ xlog.x.ndim = 2 => result[1].shape = <<result[1].gen, xlog.x.c>>

\* process has handed back frames for an input of rank 2 with one channel
OneChannelKeptRankTwo ==
  /\ xlog.op = "process" /\ xlog.x.ndim = 2 /\ xlog.x.c = 1
  /\ pc[1] = "returned" /\ result[1].st = "ok" /\ result[1].gen > 0
  /\ result[1].shape = <<result[1].gen, 1>>

\* ------------------------------------------------ the starting ratio
\* One thread builds a CallbackSession, closes it, gives it new starting
\* ratios and reads from it.  xlog.r is the ratio last given to
\* set_starting_ratio (0: none so far), xlog.op the call last begun.
InitRatio == InitProgram /\ xlog = [op |-> "none", r |-> 0]

NextRatio ==
  \E t \in {1} :
    \/ /\ \A s \in Sessions : ~sess[s].alive
       /\ CConstruct(t, 1, 2, Linear, 1, TRUE) /\ xlog' = [xlog EXCEPT !.op = "construct"]
    \/ \E s \in Sessions : CExit(t, s) /\ xlog' = [xlog EXCEPT !.op = "exit"]
    \/ \E s \in Sessions, q \in {1, 3} :
         CSetStartingRatio(t, s, q) /\ xlog' = [op |-> "set", r |-> q]
    \/ \E s \in Sessions, n \in ReadFrames :
         ReadBegin(t, s, n, TRUE) /\ xlog' = [xlog EXCEPT !.op = "read"]
    \/ EngineStep(t, "none") /\ UNCHANGED xlog
    \/ BridgeAcquire(t) /\ UNCHANGED xlog
    \/ \E ch \in {NoChunk, Arr(1, 1, 1)} : Producer(t, ch) /\ UNCHANGED xlog
    \/ BridgePost(t, "none") /\ UNCHANGED xlog
    \/ ReadEnd(t) /\ UNCHANGED xlog
    \/ Resume(t) /\ UNCHANGED xlog

SpecRatio == InitRatio /\ [][NextRatio]_vars

\* C23: when set_starting_ratio(r) has returned, on a session that is open or
\* closed, the ratio the session records is r, and the engine call of every
\* later read, one that makes the handle anew included, is given r.
RatioRecorded ==
  xlog.r # 0 =>
    /\ \A s \in Sessions : sess[s].alive => sess[s].ratio = xlog.r
    /\ pc[1] \in InRead => call[1].ratio = xlog.r

\* ------------------------------------------------ a copy that cannot be made
\* One thread builds IncrementalSessions, converts with them, and copies them
\* with an engine that may fail to duplicate its state.  xlog is the call last
\* begun: op the call, s its session, ok whether the engine could duplicate,
\* sess0 and eng0 the sessions and the engine's handles as they were when the
\* call began.
NoDup == [op |-> "none", s |-> 0, ok |-> TRUE,
          sess0 |-> [s \in Sessions |-> NoSession],
          eng0 |-> [h \in Handles |-> NoHandle]]

Asked(op, s, ok) == [op |-> op, s |-> s, ok |-> ok, sess0 |-> sess, eng0 |-> eng]

InitDup == InitProgram /\ xlog = NoDup

NextDup ==
  \E t \in {1} :
    \/ \E ch \in {1, 2} : RConstruct(t, Linear, ch, TRUE) /\ xlog' = NoDup
    \/ \E s \in Sessions, ok \in BOOLEAN : RClone(t, s, ok) /\ xlog' = Asked("clone", s, ok)
    \/ \E s \in Sessions : RDestroy(t, s) /\ xlog' = NoDup
    \/ \E s \in Sessions, x \in CloneInputs, eoi \in BOOLEAN :
         ProcessBegin(t, s, x, 2, eoi) /\ xlog' = NoDup
    \/ ProcessEnd(t, "none") /\ UNCHANGED xlog
    \/ Resume(t) /\ xlog' = NoDup

SpecDup == InitDup /\ [][NextDup]_vars

\* C24: when the engine cannot duplicate its state, clone() fails with the
\* translation of the engine's status; no session has been added, no handle
\* has been made, and the session that was to be copied, its handle, its
\* converter, its channel count and the engine state behind it are as they
\* were when the call began.
FailedCloneLeavesNothing ==
  (xlog.op = "clone" /\ ~xlog.ok /\ pc[1] = "returned") =>
    /\ result[1].st = "ConversionFailed" /\ result[1].code = SRC_ERR_MALLOC_FAILED
    /\ sess = xlog.sess0
    /\ eng = xlog.eng0

\* clone() has failed on a session that has converted input and holds a frame
\* in its engine state
CloneFailedMidStream ==
  /\ xlog.op = "clone" /\ ~xlog.ok /\ pc[1] = "returned"
  /\ result[1].st = "ConversionFailed"
  /\ eng[sess[xlog.s].st].filt > 0 /\ eng[sess[xlog.s].st].lastRatio # 0
  /\ IncSessions = {xlog.s}

\* ------------------------------------------------ two sessions, two threads
\* Two threads read from a CallbackSession and from its copy, one session
\* each or the same one in turn, with a producer that hands back None, a
\* chunk of the session's channel count and a chunk of another.
InitPair == InitProgram /\ xlog = NoLog

NextPair ==
  \E t \in Threads :
    \/ /\ \A s \in Sessions : ~sess[s].alive
       /\ CConstruct(t, 1, 2, Linear, 1, TRUE) /\ UNCHANGED xlog
    \/ \E s \in Sessions : CClone(t, s, TRUE) /\ UNCHANGED xlog
    \/ \E s \in Sessions : ReadBegin(t, s, 1, TRUE) /\ UNCHANGED xlog
    \/ EngineStep(t, "none") /\ UNCHANGED xlog
    \/ BridgeAcquire(t) /\ UNCHANGED xlog
    \/ \E ch \in {NoChunk, Arr(1, 1, 1), Arr(2, 1, 2)} : Producer(t, ch) /\ UNCHANGED xlog
    \/ BridgePost(t, "none") /\ UNCHANGED xlog
    \/ ReadEnd(t) /\ UNCHANGED xlog
    \/ Resume(t) /\ UNCHANGED xlog

SpecPair == InitPair /\ [][NextPair]_vars

\* the thread whose call this step belongs to
Acts(t) == pc'[t] # pc[t] \/ call'[t] # call[t]

\* C25: the steps of a call on one session, a read on a copy and the bridge
\* invoked during it included, work on that session alone: the bridge works
\* on the object of the read's own session, and the handle, the cached input
\* view, the recorded rank and the deferred-error slot of every other session,
\* and the engine state behind its handle, are left as they were.
OwnSessionStep ==
  \A t \in Threads :
    /\ call[t].op = "read" /\ call[t].cb # 0 => call[t].cb = call[t].s
    /\ (Acts(t) /\ call[t].op = "read") =>
         \A s \in Sessions :
           (s # call[t].s /\ sess[s].alive) =>
             /\ sess'[s] = sess[s]
             /\ sess[s].st # 0 => eng'[sess[s].st] = eng[sess[s].st]

\* C25, of every step
SessionsShareNothing == [][OwnSessionStep]_vars

\* ------------------------------------------------ the output buffer
\* One thread makes the three kinds of conversion calls, on an engine that may
\* fail, misreport or run out of memory, with sessions that are closed and
\* reopened and a producer that may hand back a bad chunk or raise.  xlog is
\* the kind of the call last begun.
BufferChunks == {NoChunk, Raise, Arr(1, 1, 1), Arr(2, 1, 2)}
BufferArrays == {Mono, [ndim |-> 2, n |-> 1, c |-> 0], [ndim |-> 3, n |-> 1, c |-> 1]}

InitBuffer == InitProgram /\ xlog = "none"

NextBuffer ==
  \E t \in {1} :
    \/ /\ \A s \in Sessions : ~sess[s].alive
       /\ RConstruct(t, Linear, 1, TRUE) /\ xlog' = "construct"
    \/ \E s \in Sessions, x \in BufferArrays, q \in {0, 2} :
         ProcessBegin(t, s, x, q, TRUE) /\ xlog' = "process"
    \/ \E f \in Faults : ProcessEnd(t, f) /\ UNCHANGED xlog
    \/ \E x \in BufferArrays, obj \in ShapeConverters :
         ResampleBegin(t, x, 2, obj) /\ xlog' = "resample"
    \/ \E ok \in BOOLEAN, f \in Faults : ResampleEnd(t, ok, f) /\ UNCHANGED xlog
    \/ /\ \A s \in Sessions : sess[s].kind # "cb"
       /\ \E q \in {0, 2} : CConstruct(t, 1, q, Linear, 1, TRUE) /\ xlog' = "construct"
    \/ \E s \in Sessions : CExit(t, s) /\ xlog' = "exit"
    \/ \E s \in Sessions, n \in ReadFrames, ok \in BOOLEAN :
         ReadBegin(t, s, n, ok) /\ xlog' = "read"
    \/ \E f \in {"none", "err"} : EngineStep(t, f) /\ UNCHANGED xlog
    \/ BridgeAcquire(t) /\ UNCHANGED xlog
    \/ \E ch \in BufferChunks : Producer(t, ch) /\ UNCHANGED xlog
    \/ \E f \in {"none", "err"} : BridgePost(t, f) /\ UNCHANGED xlog
    \/ ReadEnd(t) /\ UNCHANGED xlog
    \/ UnwindPropagate(t) /\ UNCHANGED xlog
    \/ UnwindTerminate(t) /\ UNCHANGED xlog
    \/ Resume(t) /\ xlog' = "none"

SpecBuffer == InitBuffer /\ [][NextBuffer]_vars

\* C26: while the engine call of resample, process or read runs, the call
\* holds its output buffer, not yet freed; when the call has returned, a
\* buffer was allocated for every read and for every resample and process
\* that got past its checks, and that buffer has gone to the caller with the
\* result, with the caller's reference as the only one left and never freed,
\* or the call has failed and the buffer was freed, once, with no reference
\* left.
BufferGivenOrFreedOnce ==
  /\ pc[1] \in InEngine \cup {"producer"} => call[1].buf = capsule_ctor
  /\ (pc[1] = "returned" /\ xlog \in {"read", "process", "resample"}) =>
       LET b == result[1].buf
       IN /\ b.made <=> (xlog = "read" \/ result[1].st \notin {"InvalidShape", "InvalidConverter"})
          /\ b.freed <= 1
          /\ (b.made /\ result[1].st = "ok") => b.refs = 1 /\ b.freed = 0
          /\ (b.made /\ result[1].st # "ok") => b.refs = 0 /\ b.freed = 1
          /\ ~b.made => b = NoBuffer

\* a read on a closed session has failed because no handle could be made, and
\* the buffer allocated at its start was freed
BufferFreedWithoutHandle ==
  /\ xlog = "read" /\ pc[1] = "returned"
  /\ result[1].st = "ConversionFailed" /\ result[1].code = SRC_ERR_MALLOC_FAILED
  /\ result[1].buf = [made |-> TRUE, refs |-> 0, freed |-> 1]
  /\ \E s \in Sessions : sess[s].kind = "cb" /\ sess[s].st = 0

\* ------------------------------------------------ calls come back
\* Two threads make the three kinds of conversion calls on sessions of their
\* own, with producers that hand back a chunk or None.  Every engine step and
\* every producer invocation in flight goes on, a caller that holds the lock
\* goes on and lets it go, and a thread that waits for the lock gets it when
\* it is free again and again.
InitFair == InitProgram /\ xlog = NoLog

\* the steps of thread t that need no lock, or run with the lock held
Runs(t) ==
  /\ \/ EngineStep(t, "none")
     \/ \E ch \in {NoChunk, Arr(1, 1, 1)} : Producer(t, ch)
     \/ BridgePost(t, "none")
     \/ Resume(t)
  /\ UNCHANGED xlog

\* the steps of thread t that take the lock
Locks(t) ==
  /\ \/ ProcessEnd(t, "none")
     \/ ResampleEnd(t, TRUE, "none")
     \/ BridgeAcquire(t)
     \/ ReadEnd(t)
  /\ UNCHANGED xlog

NextFair ==
  \E t \in Threads :
    \/ /\ \A s \in Sessions : sess[s].kind # "inc"
       /\ RConstruct(t, Linear, 1, TRUE) /\ UNCHANGED xlog
    \/ \E s \in Sessions : ProcessBegin(t, s, Mono, 2, FALSE) /\ UNCHANGED xlog
    \/ ResampleBegin(t, Mono, 2, Linear) /\ UNCHANGED xlog
    \/ /\ \A s \in Sessions : sess[s].kind # "cb"
       /\ CConstruct(t, 1, 2, Linear, 1, TRUE) /\ UNCHANGED xlog
    \/ \E s \in Sessions : ReadBegin(t, s, 1, TRUE) /\ UNCHANGED xlog
    \/ Runs(t)
    \/ Locks(t)

SpecFair ==
  /\ InitFair /\ [][NextFair]_vars
  /\ \A t \in Threads : WF_vars(Runs(t)) /\ SF_vars(Locks(t))

\* thread t is inside a conversion call
InFlight(t) == pc[t] \in InEngine \cup {"producer"}

\* thread t waits for the lock
WaitsForLock(t) == pc[t] \in {"proc_engine", "bulk_engine", "bridge_acq", "read_exit"}

\* C27: every resample, process and read call in flight comes to its return,
\* with a result or an error, and whenever every thread waits for the lock the
\* lock is free, so that one of them gets it: the threads never all wait for
\* ever.
CallsComeBack ==
  /\ \A t \in Threads : InFlight(t) ~> (pc[t] = "returned")
  /\ []((\A t \in Threads : WaitsForLock(t)) => gil = 0)

\* thread 1 is at the end of a read and waits for the lock, which thread 2
\* holds after a call on another session
ReadWaitsForCaller ==
  /\ pc[1] = "read_exit" /\ call[1].op = "read" /\ call[1].gen > 0
  /\ pc[2] = "returned" /\ gil = 2

\* ------------------------------------------------ the end of the stream
\* One session whose producer hands back chunks of one frame or None; the log
\* records that the producer has handed back None, and during which read.
InitEnd == InitProgram /\ xlog = [ended |-> FALSE, reads |-> 0, at |-> 0]

NextEnd ==
  \E t \in {1} :
    \/ /\ \A s \in Sessions : sess[s].kind # "cb"
       /\ CConstruct(t, 1, 2, Linear, 1, TRUE) /\ UNCHANGED xlog
    \/ \E s \in Sessions, n \in ReadFrames :
         /\ ReadBegin(t, s, n, TRUE)
         /\ xlog' = [xlog EXCEPT !.reads = Min(@ + 1, MaxLog)]
    \/ EngineStep(t, "none") /\ UNCHANGED xlog
    \/ BridgeAcquire(t) /\ UNCHANGED xlog
    \/ \E ch \in {NoChunk, Arr(1, 1, 1)} :
         /\ Producer(t, ch)
         /\ xlog' = IF ch = NoChunk /\ ~xlog.ended
                    THEN [xlog EXCEPT !.ended = TRUE, !.at = xlog.reads]
                    ELSE xlog
    \/ BridgePost(t, "none") /\ UNCHANGED xlog
    \/ ReadEnd(t) /\ UNCHANGED xlog
    \/ Resume(t) /\ UNCHANGED xlog

SpecEnd == InitEnd /\ [][NextEnd]_vars

\* the producer function is invoked in this step
ProducerInvoked == \E t \in Threads : pc[t] = "producer" /\ pc'[t] # "producer"

\* C28: once the producer of a session has handed back None, no later step
\* invokes it, in the same read or in a later one.
NoCallAfterSentinel == [][xlog.ended => ~ProducerInvoked]_vars

\* ------------------------------------------------ when the lock is released
\* the README's threshold of the default mode: calls that handle at least this
\* many frames release the lock
GilReleaseThreshold == 1000

\* thread t is at the engine call of resample, process or read
AtEngineCall(t) == pc[t] \in {"bulk_engine", "proc_engine", "read_engine"}

\* C29: in the default mode (no release_gil argument) the lock is released
\* for the engine call exactly when the call handles at least the threshold
\* of frames; with fewer frames the calling thread holds it throughout.
LockFollowsThreshold ==
  \A t \in Threads :
    AtEngineCall(t) => ((gil # t) <=> (call[t].frames >= GilReleaseThreshold))

\* ------------------------------------------------ the deferred error first
\* One session of one channel, made with a ratio the engine accepts or
\* refuses; its producer hands back chunks of the right shape, of rank 3 or of
\* two channels, and the engine's conversion step may fail.  The log keeps
\* what the end of the last read saw: the frames, the slot and the status.
NoReadSeen == [seen |-> FALSE, gen |-> 0, slot |-> "", code |-> 0]

InitSlot == InitProgram /\ xlog = NoReadSeen

NextSlot ==
  \E t \in {1} :
    \/ /\ \A s \in Sessions : sess[s].kind # "cb"
       /\ \E q \in {0, 2} : CConstruct(t, 1, q, Linear, 1, TRUE)
       /\ UNCHANGED xlog
    \/ \E s \in Sessions : CSetStartingRatio(t, s, 2) /\ UNCHANGED xlog
    \/ \E s \in Sessions : ReadBegin(t, s, 1, TRUE) /\ UNCHANGED xlog
    \/ \E f \in {"none", "err"} : EngineStep(t, f) /\ UNCHANGED xlog
    \/ BridgeAcquire(t) /\ UNCHANGED xlog
    \/ \E ch \in {NoChunk, Arr(1, 1, 1), Arr(3, 1, 1), Arr(2, 1, 2)} :
         Producer(t, ch) /\ UNCHANGED xlog
    \/ \E f \in {"none", "err"} : BridgePost(t, f) /\ UNCHANGED xlog
    \/ /\ ReadEnd(t)
       /\ xlog' = [seen |-> TRUE, gen |-> call[t].gen, slot |-> sess[call[t].s].cerr,
                   code |-> eng[sess[call[t].s].st].err]
    \/ Resume(t) /\ xlog' = NoReadSeen

SpecSlot == InitSlot /\ [][NextSlot]_vars

\* C30: a read whose engine call came back with no frames fails with the
\* callback error when the deferred-error slot is set, whatever the engine's
\* status; the status is translated only when the slot is empty.
DeferredErrorFirst ==
  (pc[1] = "returned" /\ xlog.seen /\ xlog.gen = 0) =>
    IF xlog.slot # ""
    THEN result[1].st = "CallbackError"
    ELSE IF error_handler(xlog.code) # "none"
    THEN result[1].st = error_handler(xlog.code) /\ result[1].code = xlog.code
    ELSE result[1].st = "ok"

\* a read ended with no frames, the slot set and a status that is not zero,
\* and failed with the callback error
CallbackErrorOverStatus ==
  /\ pc[1] = "returned" /\ xlog.seen /\ xlog.gen = 0
  /\ xlog.slot # "" /\ xlog.code # 0
  /\ result[1].st = "CallbackError"

\* ------------------------------------------------ errors of an earlier read
\* Two threads read from a CallbackSession and from its copy, with a producer
\* that hands back None and chunks of the right shape, of two channels and of
\* rank 3.  xlog[t] says that the bridge invoked during the read in flight on
\* thread t has recorded a deferred error.
StaleChunks == {NoChunk, Arr(1, 1, 1), Arr(2, 1, 2), Arr(3, 1, 1)}

\* the bridge records a deferred error for this chunk (cb_channels is the
\* channel count of the object behind cb_data)
BridgeRecords(chunk, cb_channels) ==
  bridge_unlocked(bridge_locked(NoSession, chunk), chunk, cb_channels).cerr # ""

InitStale == InitProgram /\ xlog = [t \in Threads |-> FALSE]

NextStale ==
  \E t \in Threads :
    \/ /\ \A s \in Sessions : ~sess[s].alive
       /\ CConstruct(t, 1, 2, Linear, 1, TRUE) /\ UNCHANGED xlog
    \/ \E s \in Sessions : CClone(t, s, TRUE) /\ UNCHANGED xlog
    \/ \E s \in Sessions :
         ReadBegin(t, s, 1, TRUE) /\ xlog' = [xlog EXCEPT ![t] = FALSE]
    \/ EngineStep(t, "none") /\ UNCHANGED xlog
    \/ BridgeAcquire(t) /\ UNCHANGED xlog
    \/ \E ch \in StaleChunks :
         /\ Producer(t, ch)
         /\ xlog' = [xlog EXCEPT ![t] = @ \/ BridgeRecords(ch, call[t].ch)]
    \/ BridgePost(t, "none") /\ UNCHANGED xlog
    \/ ReadEnd(t) /\ UNCHANGED xlog
    \/ Resume(t) /\ UNCHANGED xlog

SpecStale == InitStale /\ [][NextStale]_vars

\* read hands control to the engine with the session's slot empty, and a read
\* that fails with the callback error is one whose own bridge recorded it
FreshSlotStep ==
  \A t \in Threads :
    /\ (pc[t] = "py" /\ pc'[t] = "read_engine") => sess'[call'[t].s].cerr = ""
    /\ (pc[t] = "read_exit" /\ pc'[t] = "returned" /\ result'[t].st = "CallbackError")
         => xlog[t]

\* C31: when a read hands control to the engine the session's deferred-error
\* slot is empty, and an error the bridge recorded during one read makes only
\* that read fail: a read during which the bridge recorded nothing does not
\* end with the callback error.
ErrorStaysInItsRead == [][FreshSlotStep]_vars

\* ------------------------------------------------ the lock around the bridge
\* a step in which the bridge is entered from the engine, or returns to it
BridgeLockStep ==
  \A t \in Threads :
    /\ (pc[t] = "read_engine" /\ pc'[t] = "bridge_acq") => gil # t /\ gil' # t
    /\ (pc[t] = "bridge_post" /\ pc'[t] = "read_engine") => gil # t /\ gil' # t

\* C32: the engine enters the bridge on a thread that does not hold the lock,
\* and on every way out of the bridge (None, a chunk of rank above 2, a chunk
\* of a wrong or zero channel count, a valid chunk) the thread has given the
\* lock up again when control is back in the engine.
BridgeGivesLockBack == [][BridgeLockStep]_vars

\* the bridge on thread 1 has returned to the engine after a chunk of rank 3,
\* while thread 2 holds the lock for its own producer
BridgeBackAfterRankThree ==
  /\ pc[1] = "read_engine" /\ call[1].chunk = Arr(3, 1, 1) /\ call[1].eoi
  /\ pc[2] = "producer" /\ gil = 2

\* ------------------------------------------------ whose slot, whose view
\* the bridge invoked during a read on session s keeps the chunk as s's cached
\* view and records an error it finds in s's slot, and that read raises it
OwnSlotStep ==
  \A t \in Threads :
    /\ (pc[t] = "producer" /\ pc'[t] = "bridge_post" /\ call'[t].chunk.k = "arr")
         => sess'[call[t].s].cur = call'[t].chunk
    /\ (pc[t] = "bridge_post" /\ pc'[t] = "read_engine"
        /\ BridgeRecords(call[t].chunk, call[t].ch))
         => sess'[call[t].s].cerr # ""
    /\ (pc[t] = "read_exit" /\ pc'[t] = "returned" /\ xlog[t])
         => result'[t].st = "CallbackError"

\* C33: for every CallbackSession, a copy included, an error of shape or
\* channel count that the bridge finds during a read of the session is
\* recorded in that session's own slot and raised by that read, and the
\* cached view and the rank written during the read are the session's own.
ErrorsAreOnesOwn == [][OwnSlotStep]_vars

\* ------------------------------------------------ an error after frames
\* One thread reads one or more frames from a CallbackSession and from its
\* copy; the producer may hand back a bad chunk after a good one, so that the
\* engine has written frames when the bridge records the error.  xlog[t] is
\* as in the specification before.
InitLate == InitProgram /\ xlog = [t \in Threads |-> FALSE]

NextLate ==
  \E t \in {1} :
    \/ /\ \A s \in Sessions : ~sess[s].alive
       /\ CConstruct(t, 1, 2, Linear, 1, TRUE) /\ UNCHANGED xlog
    \/ \E s \in Sessions : CClone(t, s, TRUE) /\ UNCHANGED xlog
    \/ \E s \in Sessions, n \in 1 .. MaxFrames :
         ReadBegin(t, s, n, TRUE) /\ xlog' = [xlog EXCEPT ![t] = FALSE]
    \/ EngineStep(t, "none") /\ UNCHANGED xlog
    \/ BridgeAcquire(t) /\ UNCHANGED xlog
    \/ \E ch \in StaleChunks :
         /\ Producer(t, ch)
         /\ xlog' = [xlog EXCEPT ![t] = @ \/ BridgeRecords(ch, call[t].ch)]
    \/ BridgePost(t, "none") /\ UNCHANGED xlog
    \/ ReadEnd(t) /\ UNCHANGED xlog
    \/ Resume(t) /\ UNCHANGED xlog

SpecLate == InitLate /\ [][NextLate]_vars

\* a read ends with the callback error when its session's slot is set and
\* when the bridge recorded an error during it, with or without frames
NoResultWithErrorStep ==
  \A t \in Threads :
    (pc[t] = "read_exit" /\ pc'[t] = "returned"
     /\ (sess[call[t].s].cerr # "" \/ xlog[t]))
      => result'[t].st = "CallbackError"

\* C34: read never hands back a result while the deferred-error slot of its
\* session is set: when the bridge recorded an error at any point of the
\* call, read fails with it, even if the engine has written frames.
NoResultWithError == [][NoResultWithErrorStep]_vars

\* ------------------------------------------------ a ratio the engine refuses
\* One thread builds a CallbackSession, reads from it, closes it, and gives it
\* starting ratios, some of which the engine refuses.  xlog is the call last
\* begun: op the call, s its session, q the ratio given, sess0 and eng0 the
\* sessions and the engine's handles as they were when the call began.
NoAsk == [op |-> "none", s |-> 0, q |-> 0,
          sess0 |-> [s \in Sessions |-> NoSession],
          eng0 |-> [h \in Handles |-> NoHandle]]

InitReject == InitProgram /\ xlog = NoAsk

NextReject ==
  \E t \in {1} :
    \/ /\ \A s \in Sessions : ~sess[s].alive
       /\ CConstruct(t, 1, 2, Linear, 1, TRUE) /\ xlog' = NoAsk
    \/ \E s \in Sessions : CExit(t, s) /\ xlog' = NoAsk
    \/ \E s \in Sessions, q \in {0, 1, 3} :
         /\ CSetStartingRatio(t, s, q)
         /\ xlog' = [op |-> "set", s |-> s, q |-> q, sess0 |-> sess, eng0 |-> eng]
    \/ \E s \in Sessions : ReadBegin(t, s, 1, TRUE) /\ xlog' = NoAsk
    \/ EngineStep(t, "none") /\ UNCHANGED xlog
    \/ BridgeAcquire(t) /\ UNCHANGED xlog
    \/ \E ch \in {NoChunk, Arr(1, 1, 1)} : Producer(t, ch) /\ UNCHANGED xlog
    \/ BridgePost(t, "none") /\ UNCHANGED xlog
    \/ ReadEnd(t) /\ UNCHANGED xlog
    \/ Resume(t) /\ UNCHANGED xlog

SpecReject == InitReject /\ [][NextReject]_vars

\* the engine refuses ratio q for the session as it was: no handle, or a
\* ratio out of range
EngineRefuses(r, q) == r.st = 0 \/ is_bad_src_ratio(q)

\* C35: when set_starting_ratio has returned and the engine refused the ratio
\* (a ratio out of range, or a session that holds no handle), the call has
\* failed with the translation of the engine's status, and the session's
\* ratio, its handle, its other fields and the engine's handles are as they
\* were when the call began.
RefusedRatioChangesNothing ==
  (pc[1] = "returned" /\ xlog.op = "set" /\ EngineRefuses(xlog.sess0[xlog.s], xlog.q)) =>
    /\ result[1].st = "ConversionFailed"
    /\ result[1].code = IF xlog.sess0[xlog.s].st = 0
                        THEN SRC_ERR_BAD_STATE ELSE SRC_ERR_BAD_SRC_RATIO
    /\ sess = xlog.sess0
    /\ eng = xlog.eng0

\* set_starting_ratio with a ratio in range was refused on a session that had
\* read a chunk and was closed afterwards, and the session kept its ratio
RatioRefusedWhenClosed ==
  /\ pc[1] = "returned" /\ xlog.op = "set" /\ result[1].st = "ConversionFailed"
  /\ sess[xlog.s].st = 0 /\ sess[xlog.s].ratio # xlog.q /\ xlog.q # 0
  /\ sess[xlog.s].ndim # 0

\* ------------------------------------------------ what the bridge reports
\* One thread reads from a session of one channel whose producer hands back
\* None, arrays of rank 0, arrays without frames, valid chunks, and chunks of
\* a wrong channel count or of rank 3.
ZeroChunks == {NoChunk, Arr(0, 0, 0), Arr(1, 0, 1), Arr(2, 0, 1), Arr(1, 1, 1),
               Arr(2, 1, 1), Arr(2, 1, 2), Arr(3, 1, 1)}

InitZero == InitProgram /\ xlog = NoLog

NextZero ==
  \E t \in {1} :
    \/ /\ \A s \in Sessions : ~sess[s].alive
       /\ CConstruct(t, 1, 2, Linear, 1, TRUE) /\ UNCHANGED xlog
    \/ \E s \in Sessions, n \in 1 .. MaxFrames : ReadBegin(t, s, n, TRUE) /\ UNCHANGED xlog
    \/ EngineStep(t, "none") /\ UNCHANGED xlog
    \/ BridgeAcquire(t) /\ UNCHANGED xlog
    \/ \E ch \in ZeroChunks : Producer(t, ch) /\ UNCHANGED xlog
    \/ BridgePost(t, "none") /\ UNCHANGED xlog
    \/ ReadEnd(t) /\ UNCHANGED xlog
    \/ Resume(t) /\ UNCHANGED xlog

SpecZero == InitZero /\ [][NextZero]_vars

\* the bridge on thread t returns to the engine in this step
BridgeReturns(t) == pc[t] = "bridge_post" /\ pc'[t] = "read_engine"

\* the chunk is an array that passes the bridge's checks of rank and channels
PassesChecks(chunk, cb_channels) ==
  chunk.k = "arr" /\ chunk.ndim \in {1, 2} /\ ~BridgeRecords(chunk, cb_channels)

\* the bridge reports no frames (the engine takes it as the end of input)
\* only for None or with a deferred error recorded
ZeroOnlyAtEndStep ==
  \A t \in Threads :
    BridgeReturns(t) =>
      /\ call'[t].eoi => (call[t].chunk = NoChunk \/ BridgeRecords(call[t].chunk, call[t].ch))
      /\ PassesChecks(call[t].chunk, call[t].ch) => ~call'[t].eoi

\* C36: the bridge reports no frames to the engine only when the producer
\* handed back None or when the bridge recorded a deferred error in the same
\* invocation; a chunk that passes the checks of rank and channel count is
\* never reported as the end of input.
ZeroOnlyAtEnd == [][ZeroOnlyAtEndStep]_vars

\* the bridge reports no frames exactly for None, for an array of rank 0, with
\* a deferred error recorded, and for an array without frames
ZeroForEmptyStep ==
  \A t \in Threads :
    BridgeReturns(t) =>
      (call'[t].eoi <=>
         \/ call[t].chunk.k # "arr" \/ call[t].chunk.ndim = 0
         \/ BridgeRecords(call[t].chunk, call[t].ch)
         \/ call[t].chunk.n = 0)

\* C36 as amended: the bridge reports no frames to the engine only when the
\* producer handed back None or an array of rank 0, when the bridge recorded
\* a deferred error in the same invocation, or when the chunk has no frames;
\* a chunk with frames that passes the checks is never reported as the end of
\* input.
ZeroForEmpty == [][ZeroForEmptyStep]_vars

\* a chunk of rank 1 without frames passed the checks and was taken by the
\* engine as the end of input, with no error recorded
EmptyChunkEndedInput ==
  /\ pc[1] = "read_engine" /\ call[1].chunk = Arr(1, 0, 1) /\ call[1].eoi
  /\ sess[call[1].s].cerr = ""

\* ------------------------------------------------ writes of the bridge
\* thread t takes a step of the bridge: the producer invocation with the rest
\* of the acquire scope, or the part after the scope
BridgeActs(t) == Acts(t) /\ pc[t] \in {"producer", "bridge_post"}

\* every write of the bridge to a session's fields is made with the lock held
LockedWritesStep ==
  \A t \in Threads : (BridgeActs(t) /\ sess' # sess) => gil = t

\* C37: every write to a CallbackSession's fields made from inside the bridge
\* (the cached input view, the recorded rank, the deferred-error slot) is made
\* while the writing thread holds the lock.
BridgeWritesLocked == [][LockedWritesStep]_vars

\* the view, the rank and the error of a rank above 2 are written with the
\* lock held, the error of the channel count without it
ScopedWritesStep ==
  \A t \in Threads :
    BridgeActs(t) =>
      \A s \in Sessions :
        /\ (sess'[s].cur # sess[s].cur \/ sess'[s].ndim # sess[s].ndim) => gil = t
        /\ (sess'[s].cerr # sess[s].cerr /\ sess'[s].cerr = "dims") => gil = t
        /\ (sess'[s].cerr # sess[s].cerr /\ sess'[s].cerr = "channels") =>
             pc[t] = "bridge_post" /\ gil # t

\* C37 as amended: the bridge writes the cached input view, the recorded rank
\* and the deferred error of a chunk of rank above 2 while its thread holds
\* the lock; the deferred error of a wrong or zero channel count is written
\* after the thread has given the lock up.
BridgeWritesScoped == [][ScopedWritesStep]_vars

\* the bridge on thread 1 has recorded the channel error while thread 2 held
\* the lock for its producer
ChannelErrorWrittenUnlocked ==
  /\ pc[1] = "read_engine" /\ call[1].chunk = Arr(2, 1, 2)
  /\ sess[call[1].cb].cerr = "channels"
  /\ pc[2] = "producer" /\ gil = 2 /\ call[2].s # call[1].s

\* ------------------------------------------------ reads inside producers
\* Two threads read from CallbackSessions and call resample; the code of a
\* producer may itself call read on another session, or resample, before it
\* hands back its chunk.  xlog.stack[t] holds the frames of the reads of thread t that wait
\* inside their producer for such a call, xlog.last[t] the last lock event of
\* thread t: "acq" (it took the lock; so at the start, in the caller's code)
\* or "rel" (it gave the lock up).
MaxNest == 1

NoNest == [stack |-> [t \in Threads |-> <<>>], last |-> [t \in Threads |-> "acq"]]

InitNest == InitProgram /\ xlog = NoNest

\* the sessions whose read waits inside its producer
Waiting ==
  {xlog.stack[x[1]][x[2]].s :
     x \in {y \in Threads \X (1 .. MaxNest) : y[2] <= Len(xlog.stack[y[1]])}}

Released(t) == [xlog EXCEPT !.last[t] = "rel"]
Acquired(t) == [xlog EXCEPT !.last[t] = "acq"]

\* callback(): the Python code of the producer makes a call of its own before
\* it returns; the frame of the read in flight waits
ProducerCalls(t) ==
  /\ ~crashed /\ pc[t] = "producer" /\ gil = t
  /\ Len(xlog.stack[t]) < MaxNest
  /\ xlog' = [xlog EXCEPT !.stack[t] = <<call[t]>> \o @]
  /\ call' = [call EXCEPT ![t] = NoCall]
  /\ pc' = [pc EXCEPT ![t] = "py"]
  /\ gil' = 0
  /\ UNCHANGED <<sess, eng, result, pcalls, crashed>>

\* the call made by the producer's code has returned; the producer goes on
ProducerGoesOn(t) ==
  /\ ~crashed /\ pc[t] = "returned" /\ xlog.stack[t] # <<>>
  /\ call' = [call EXCEPT ![t] = Head(xlog.stack[t])]
  /\ xlog' = [xlog EXCEPT !.stack[t] = Tail(@)]
  /\ pc' = [pc EXCEPT ![t] = "producer"]
  /\ result' = [result EXCEPT ![t] = NoResult]
  /\ UNCHANGED <<sess, eng, gil, pcalls, crashed>>

NextNest ==
  \E t \in Threads :
    \/ \E fn \in Fns :
         /\ \A s \in Sessions : sess[s].fn # fn
         /\ xlog.stack[t] = <<>>
         /\ CConstruct(t, fn, 2, Linear, 1, TRUE) /\ UNCHANGED xlog
    \/ ResampleBegin(t, Mono, 2, Linear) /\ xlog' = Released(t)
    \/ ResampleEnd(t, TRUE, "none") /\ xlog' = Acquired(t)
    \/ \E s \in Sessions \ Waiting :
         ReadBegin(t, s, 1, TRUE) /\ xlog' = Released(t)
    \/ EngineStep(t, "none") /\ UNCHANGED xlog
    \/ BridgeAcquire(t) /\ xlog' = Acquired(t)
    \/ ProducerCalls(t)
    \/ ProducerGoesOn(t)
    \/ \E ch \in {NoChunk, Arr(1, 1, 1)} : Producer(t, ch) /\ xlog' = Released(t)
    \/ BridgePost(t, "none") /\ UNCHANGED xlog
    \/ ReadEnd(t) /\ xlog' = Acquired(t)
    \/ xlog.stack[t] = <<>> /\ Resume(t) /\ UNCHANGED xlog

SpecNest == InitNest /\ [][NextNest]_vars

\* thread t gives the lock up in this step: a release scope begins, or an
\* acquire scope ends
ReleaseEvent(t) ==
  \/ pc[t] = "py" /\ pc'[t] \in {"read_engine", "bulk_engine"}
  \/ pc[t] = "producer" /\ pc'[t] = "bridge_post"

\* thread t takes the lock in this step: an acquire scope begins, or a release
\* scope ends
AcquireEvent(t) ==
  \/ pc[t] = "bridge_acq" /\ pc'[t] = "producer"
  \/ pc[t] \in {"read_exit", "bulk_engine"} /\ pc'[t] = "returned"

LockEventsStep ==
  \A t \in Threads :
    /\ ReleaseEvent(t) => xlog.last[t] = "acq" /\ gil' # t
    /\ AcquireEvent(t) => xlog.last[t] = "rel" /\ gil # t /\ gil' = t
    /\ pc'[t] # "py" => (gil' = t <=> xlog'.last[t] = "acq")

\* C38: on each thread the events that take the lock and the events that give
\* it up alternate, through reads, bridge invocations and reads made by the
\* code of a producer: a thread takes the lock only when it does not hold it
\* and gives it up only when it holds it, and the lock has one holder at most.
LockEventsAlternate == [][LockEventsStep]_vars

\* thread 1 is in the producer of a read made by the code of another
\* producer, whose read waits, while thread 2 waits for the lock
ProducerInsideProducer ==
  /\ pc[1] = "producer" /\ gil = 1 /\ xlog.stack[1] # <<>>
  /\ call[1].s # Head(xlog.stack[1]).s
  /\ pc[2] = "bulk_engine"
====
